---- MODULE Spec2Model ----
\* Job cache / two-phase referral protocol of jobrefme-backend
\* (src/src/controllers/referralController.ts) together with the outcomes of
\* the fetch stage (src/src/services/crawlerService.ts) and of the error
\* middleware (src/src/utils/errorHandler.ts).
\*
\* Time is counted in seconds.  Date.now() is in milliseconds in the source;
\* every timestamp the handlers compare is a Date.now() value and every
\* threshold is a whole number of seconds (120000 ms, 300 s, 3600 s), so the
\* comparisons are the same on whole seconds.
EXTENDS Integers, Naturals, Sequences, FiniteSets, TLC

\* ---------------------------------------------------------------- bounds

\* Number of background closures / content requests in flight at one time.
MaxTasks == 2

\* The clock visits 0 and each threshold (120 s, 300 s, 3600 s), and up to
\* MaxUnit seconds past each of them.
MaxUnit == 1

\* ------------------------------------------------------ program constants

\* stdTTL of jobCache, seconds.
StdTTL == 3600

\* A failed entry stored without its own ttl.
FailureTTL_Std == StdTTL

\* ttl of a failed entry, seconds.
FailureTTL == 300

\* staleness threshold of a processing entry (120000 ms), seconds.
StaleAfter == 120

\* ---------------------------------------------------------------- inputs

NoUser == "undefined"

Users == {"u1"}

\* The callers of the handlers: authenticated users.  The anonymous scope
\* (NoUser) appears as the second key clearReferralCache deletes.
Actors == Users

\* trailing path segments of accepted job URLs
JobIds == {"abc123"}

\* content hashes produced by createHashFromContent
ContentIds == {"content_1"}

TimeGrid ==
  { x + a : x \in {0, StaleAfter, FailureTTL, StdTTL}, a \in 0..MaxUnit }

\* Values a failing stage can throw: Error objects (with their message) and
\* values that are no Error.
ThrownValues ==
  { [isError |-> TRUE,  message |-> "crawler navigation timed out"],
    [isError |-> TRUE,  message |-> ""],
    [isError |-> FALSE, message |-> "aborted"] }

NoThrow == [isError |-> FALSE, message |-> "none"]

\* Texts the completion capability returns (after cleaning).
Texts == {"Hello, please refer me"}

VARIABLES
  env,        \* process.env switches read by the crawler service
  now,        \* Date.now(), seconds
  jobCache,   \* NodeCache data that has not expired: key -> [v: entry, t: expiry time]
  tasks,      \* slot -> suspended background closure or content request
  last,       \* the last output: a handler's response or a closure's final log line
  messageCache, \* aiService's NodeCache: key -> [v: text, t: expiry time]
  html,       \* the page handed to one extraction call, as the signals its strategies read
  posting,    \* what that extraction call returned or threw
  gemini,     \* what the Gemini endpoint answers for each model identifier
  reference,  \* what one generateReferenceMessage call did and returned
  requests,  \* requests with a jobUrl body: how far validation and the handler got
  templates,  \* the Template collection: id -> document, or no document
  templateCalls,  \* template requests in flight: the database operation each one awaits
  keyCalls   \* calls of hashString and generateCacheKey: their inputs and the key computed

\* the state of the controller
controllerVars == <<env, now, jobCache, tasks, last>>

\* the state of the services behind it
serviceVars == <<messageCache, html, posting, gemini, reference, requests, templates, templateCalls, keyCalls>>

vars == <<env, now, jobCache, tasks, last, messageCache, html, posting, gemini, reference, requests, templates, templateCalls, keyCalls>>

\* ------------------------------------------------------------ cache keys

\* A key built without the user id.
CacheKey_NoScope(userId, cacheType, id) == <<NoUser, cacheType, id>>

\* `user:${userId}:${type}:${id}` or `${type}:${id}`; the tuple keeps the
\* three parts the string is built from.
CacheKey(userId, cacheType, id) == <<userId, cacheType, id>>

\* ------------------------------------------------- NodeCache (jobCache)

\* NodeCache._check: an entry whose expiry time lies before Date.now() is gone.
Expired(c, k, t) == k \in DOMAIN c /\ c[k].t < t

\* the store at time t: NodeCache hides and deletes what has expired
Unexpired(c, t) == [k \in {x \in DOMAIN c : ~Expired(c, x, t)} |-> c[k]]

\* jobCache.has(key)
CacheHas(c, k, t) == k \in DOMAIN c /\ ~Expired(c, k, t)

CacheDel_All(c, k) == [x \in {} |-> c[x]]

\* jobCache.del(key)
CacheDel(c, k) == [x \in DOMAIN c \ {k} |-> c[x]]

\* jobCache.set(key, value, ttl)
CacheSet(c, k, value, ttl, t) ==
  [x \in DOMAIN c \cup {k} |-> IF x = k THEN [v |-> value, t |-> t + ttl] ELSE c[x]]

Undefined == [status |-> "undefined"]

\* jobCache.get(key)
CacheGet(c, k, t) == IF CacheHas(c, k, t) THEN c[k].v ELSE Undefined

\* ------------------------------------------------------- cache entries

ProcessingEntry(jobId, userId, t) ==
  [status |-> "processing", jobId |-> jobId, startedAt |-> t, userId |-> userId]

SuccessEntry(jobId, userId, jobTitle, companyName, referralMessage, t) ==
  [status |-> "completed", success |-> TRUE, jobId |-> jobId,
   jobTitle |-> jobTitle, companyName |-> companyName,
   referralMessage |-> referralMessage, timestamp |-> t, userId |-> userId]

FailedEntry(jobId, userId, error, t) ==
  [status |-> "completed", success |-> FALSE, jobId |-> jobId,
   error |-> error, timestamp |-> t, userId |-> userId]

\* error instanceof Error ? error.message : 'Unknown error'
ErrorMessage(thrown) == IF thrown.isError THEN thrown.message ELSE "Unknown error"

\* a || b on strings: the empty string is falsy
OrElse(a, b) == IF a = "" THEN b ELSE a

\* A staleness test that never fires.
IsStale_Never(entry, t) == FALSE

\* Date.now() - startedAt > 120000
IsStale(entry, t) == t - entry.startedAt > StaleAfter

\* --------------------------------------------------------- fetch stage

MockJobData ==
  [title |-> <<"Software Engineer">>, company |-> "Tech Innovations", source |-> "mock"]

\* What a readable posting page yields.  The title is kept as the list of its
\* parts around " at ".
PageJobData ==
  [title |-> <<"Backend Engineer", "Acme Corp">>, company |-> "", source |-> "page"]

\* parseHireJobsHTML on a page none of its strategies can read
ParserPlaceholder ==
  [title |-> <<"Job Position">>, company |-> "Company", source |-> "placeholder"]

\* extractHireJobsData on a page none of its strategies can read: its own
\* placeholder title and the parser's placeholder company
CrawlerPlaceholder ==
  [title |-> <<"Position (ID: jobId)">>, company |-> "Company",
   source |-> "placeholder"]

NoJobData == [title |-> <<>>, company |-> "", source |-> "none"]

\* The configurations of process.env the model starts from: mock crawler,
\* direct fetch, browser crawl in development and in production.
Envs ==
  { [MOCK_CRAWLER |-> TRUE,  USE_DIRECT_FETCH |-> FALSE, NODE_ENV |-> "development"],
    [MOCK_CRAWLER |-> FALSE, USE_DIRECT_FETCH |-> TRUE,  NODE_ENV |-> "production"],
    [MOCK_CRAWLER |-> FALSE, USE_DIRECT_FETCH |-> FALSE, NODE_ENV |-> "development"],
    [MOCK_CRAWLER |-> FALSE, USE_DIRECT_FETCH |-> FALSE, NODE_ENV |-> "production"] }

\* What the outside world does to one fetch.
FetchEvents == {"page", "poorPage", "httpError", "fetchThrows", "crawlerThrows", "requestFailed"}

\* Events possible under a configuration.
PossibleFetchEvents(e) ==
  IF e.MOCK_CRAWLER THEN {"none"}
  ELSE IF e.USE_DIRECT_FETCH THEN {"page", "poorPage", "httpError", "fetchThrows"}
  ELSE {"page", "poorPage", "requestFailed", "crawlerThrows"}

\* directFetchJobData: [throws, data]
DirectFetchJobData(event) ==
  CASE event = "page"        -> [throws |-> FALSE, data |-> PageJobData]
    [] event = "poorPage"    -> [throws |-> FALSE, data |-> ParserPlaceholder]
    [] event = "httpError"   -> [throws |-> FALSE, data |-> MockJobData]
    [] OTHER                 -> [throws |-> FALSE, data |-> MockJobData]

\* scrapeJobPosting: [throws, data]; a thrown value is the crawler's own.
ScrapeJobPosting(e, event) ==
  IF e.MOCK_CRAWLER THEN [throws |-> FALSE, data |-> MockJobData]
  ELSE IF e.USE_DIRECT_FETCH THEN DirectFetchJobData(event)
  ELSE CASE event = "page"          -> [throws |-> FALSE, data |-> PageJobData]
         [] event = "poorPage"      -> [throws |-> FALSE, data |-> CrawlerPlaceholder]
         [] event = "requestFailed" -> [throws |-> FALSE, data |-> MockJobData]
         [] OTHER                   ->
              IF e.NODE_ENV = "development"
              THEN [throws |-> FALSE, data |-> MockJobData]
              ELSE [throws |-> TRUE, data |-> NoJobData]

\* jobTitle after the ' at ' split
SplitJobTitle(data) == data.title[1]

\* companyName after the ' at ' split
SplitCompanyName(data) ==
  IF Len(data.title) > 1 /\ (data.company = "" \/ data.company = "the company")
  THEN data.title[2]
  ELSE data.company

\* ------------------------------------------------------- error middleware

ApiError(statusCode, message) == [api |-> TRUE, statusCode |-> statusCode, message |-> message]

\* error instanceof Error ? error : new Error(errorMessage)
AsError(thrown) == [api |-> FALSE, statusCode |-> 0, message |-> ErrorMessage(thrown)]

\* message.includes(word), tabulated for the messages of the model
Includes(message, word) ==
  <<message, word>> \in { <<"crawler navigation timed out", "crawler">> }

\* errorHandler without its ApiError branch
ErrorHandler_NoApiBranch(err) ==
  IF Includes(err.message, "crawler") \/ Includes(err.message, "scrape")
  THEN [status |-> 502,
        error |-> "Could not retrieve job posting data. Please check the URL and try again."]
  ELSE IF Includes(err.message, "generate") \/ Includes(err.message, "AI")
  THEN [status |-> 503,
        error |-> "Could not generate reference message. Please try again later."]
  ELSE [status |-> 500, error |-> "An unexpected error occurred. Please try again later."]

\* errorHandler: [status, error]
ErrorHandler(err) ==
  IF err.api THEN [status |-> err.statusCode, error |-> err.message]
  ELSE IF Includes(err.message, "crawler") \/ Includes(err.message, "scrape")
  THEN [status |-> 502,
        error |-> "Could not retrieve job posting data. Please check the URL and try again."]
  ELSE IF Includes(err.message, "generate") \/ Includes(err.message, "AI")
  THEN [status |-> 503,
        error |-> "Could not generate reference message. Please try again later."]
  ELSE [status |-> 500, error |-> "An unexpected error occurred. Please try again later."]

\* An output: op names the handler ("generate", "result", "clear", "content")
\* or the closure's end ("taskCompleted", "taskFailed"); thrown is the value the
\* closure caught.
Output(op, userId, jobId, status, error, message, thrown) ==
  [op |-> op, userId |-> userId, jobId |-> jobId, status |-> status,
   error |-> error, message |-> message, thrown |-> thrown]

\* res.status(status).json(...)
Response(op, userId, jobId, status, message) ==
  Output(op, userId, jobId, status, "", message, NoThrow)

\* next(err), answered by errorHandler
ErrorResponse(op, userId, jobId, err) ==
  Output(op, userId, jobId, ErrorHandler(err).status, ErrorHandler(err).error, "", NoThrow)

\* ------------------------------------------------------------- tasks

Slots == 1..MaxTasks

Idle == [kind |-> "idle", key |-> <<>>, stage |-> "idle", jobData |-> NoJobData]

\* One activation of the background closure of generateReferral (kind "url")
\* or of processRawJobContent (kind "content"), suspended at its first await.
NewTask(kind, key) ==
  [kind |-> kind, key |-> key, stage |-> "scrape", jobData |-> NoJobData]

FreeSlots(ts) == { i \in Slots : ts[i].kind = "idle" }

\* the slot a new closure takes
NextSlot(ts) == CHOOSE i \in FreeSlots(ts) : \A j \in FreeSlots(ts) : i <= j

\* background closures of generateReferral in flight for a key
InFlightFor(ts, k) == { i \in Slots : ts[i].kind = "url" /\ ts[i].key = k }

\* ----------------------------------------------------------------- Init

\* no page parsed yet, no reference message asked for
NoCall == [state |-> "none"]

\* the services before their first call
ServicesInit ==
  /\ messageCache = <<>>
  /\ html = NoCall
  /\ posting = NoCall
  /\ gemini = NoCall
  /\ reference = NoCall
  /\ requests = <<>>
  /\ templates = <<>>
  /\ templateCalls = <<>>
  /\ keyCalls = <<>>

Init ==
  /\ env \in Envs
  /\ now = 0
  /\ jobCache = <<>>
  /\ tasks = [i \in Slots |-> Idle]
  /\ last = Response("none", NoUser, "", 0, "")
  /\ ServicesInit

\* ------------------------------------------------------ generateReferral

\* The chain without its else-if on a processing entry.
SubmitBranch_NoDedup(cached) ==
  IF cached.status = "completed" THEN "completed" ELSE "start"

\* The branch of the if / else-if / else chain on the cached entry.
SubmitBranch(cached) ==
  IF cached.status = "completed" THEN "completed"
  ELSE IF cached.status = "processing" THEN "processing"
  ELSE "start"

\* The handler without its early return on a cached failure.
SubmitResponse_Always202(userId, jobId, cached) ==
  Response("generate", userId, jobId, 202, "")

\* What the handler answers: the 422 of a cached failure, else the 202
\* acknowledgement.
SubmitResponse(userId, jobId, cached) ==
  IF cached.status = "completed" /\ ~cached.success
  THEN ErrorResponse("generate", userId, jobId,
         ApiError(422, OrElse(cached.error, "Failed to process job data")))
  ELSE Response("generate", userId, jobId, 202, "")

\* The handler runs to its response without suspending; the closure it starts
\* runs up to its first await (the call of scrapeJobPosting).
GenerateReferral(userId, jobId) ==
  LET key    == CacheKey(userId, "job", jobId)
      cached == CacheGet(jobCache, key, now)
      branch == SubmitBranch(cached)
  IN  /\ UNCHANGED <<env, now>>
      /\ last' = SubmitResponse(userId, jobId, cached)
      /\ IF branch = "completed"
         THEN UNCHANGED <<jobCache, tasks>>
         ELSE IF branch = "processing"
         THEN /\ jobCache' = IF IsStale(cached, now) THEN CacheDel(jobCache, key) ELSE jobCache
              /\ tasks' = tasks
         ELSE /\ FreeSlots(tasks) # {}
              /\ jobCache' = CacheSet(jobCache, key, ProcessingEntry(jobId, userId, now),
                                      StdTTL, now)
              /\ tasks' = [tasks EXCEPT ![NextSlot(tasks)] = NewTask("url", key)]

TaskFails_NoWrite(i, thrown) ==
  LET t == tasks[i]
  IN  /\ jobCache' = jobCache
      /\ tasks' = [tasks EXCEPT ![i] = Idle]
      /\ last' = Output("taskFailed", t.key[1], t.key[3], 0, ErrorMessage(thrown), "", thrown)

\* catch block of the closure: the failed entry, kept for 300 s
TaskFails(i, thrown) ==
  LET t == tasks[i]
  IN  /\ jobCache' = CacheSet(jobCache, t.key,
                        FailedEntry(t.key[3], t.key[1], ErrorMessage(thrown), now),
                        FailureTTL, now)
      /\ tasks' = [tasks EXCEPT ![i] = Idle]
      /\ last' = Output("taskFailed", t.key[1], t.key[3], 0, ErrorMessage(thrown), "", thrown)

\* await scrapeJobPosting(jobUrl) settles
ScrapeSettles(i) ==
  /\ tasks[i].kind = "url" /\ tasks[i].stage = "scrape"
  /\ UNCHANGED <<env, now>>
  /\ \E event \in PossibleFetchEvents(env) :
       LET r == ScrapeJobPosting(env, event)
       IN  IF r.throws
           THEN \E thrown \in ThrownValues : TaskFails(i, thrown)
           ELSE /\ tasks' = [tasks EXCEPT ![i].stage = "generate", ![i].jobData = r.data]
                /\ UNCHANGED <<jobCache, last>>

\* await generateReferralMessage(...) returns: the success entry
GenerateReturns(i) ==
  /\ tasks[i].kind = "url" /\ tasks[i].stage = "generate"
  /\ UNCHANGED <<env, now>>
  /\ \E text \in Texts :
       LET t == tasks[i]
       IN  /\ jobCache' = CacheSet(jobCache, t.key,
                             SuccessEntry(t.key[3], t.key[1], SplitJobTitle(t.jobData),
                                          SplitCompanyName(t.jobData), text, now),
                             StdTTL, now)
           /\ tasks' = [tasks EXCEPT ![i] = Idle]
           /\ last' = Output("taskCompleted", t.key[1], t.key[3], 0, "", text, NoThrow)

\* await generateReferralMessage(...) throws
GenerateThrows(i) ==
  /\ tasks[i].kind = "url" /\ tasks[i].stage = "generate"
  /\ UNCHANGED <<env, now>>
  /\ \E thrown \in ThrownValues : TaskFails(i, thrown)

\* -------------------------------------------------- getGeneratedReferral

GetGeneratedReferral(userId, jobId) ==
  LET key    == CacheKey(userId, "job", jobId)
      cached == CacheGet(jobCache, key, now)
  IN  /\ UNCHANGED <<env, now, tasks>>
      /\ IF cached.status = "undefined"
         THEN /\ jobCache' = jobCache
              /\ last' = ErrorResponse("result", userId, jobId,
                           ApiError(404, "Job referral not found. Please submit the job URL first."))
         ELSE IF cached.status = "processing"
         THEN IF IsStale(cached, now)
              THEN /\ jobCache' = CacheDel(jobCache, key)
                   /\ last' = ErrorResponse("result", userId, jobId,
                                ApiError(500, "Processing is taking too long. Please try again."))
              ELSE /\ jobCache' = jobCache
                   /\ last' = Response("result", userId, jobId, 202, "")
         ELSE IF cached.success
         THEN /\ jobCache' = jobCache
              /\ last' = Response("result", userId, jobId, 200, cached.referralMessage)
         ELSE /\ jobCache' = jobCache
              /\ last' = ErrorResponse("result", userId, jobId,
                           ApiError(422, OrElse(cached.error,
                                      "Could not extract job details from HireJobs")))

\* ---------------------------------------------------- clearReferralCache

\* Request bodies: the field that decides the target and its value.  A jobUrl
\* stands for its trailing path segment, a jobContent for its content hash.
ClearBodies ==
  {[field |-> "jobUrl", value |-> "all"]}
    \cup [field : {"jobUrl", "jobId"}, value : JobIds]
    \cup [field : {"jobId", "jobContent"}, value : ContentIds]

\* cacheType of a clear request
ClearCacheType(body) ==
  IF body.field = "jobId"
  THEN (IF body.value \in ContentIds THEN "content" ELSE "job")
  ELSE IF body.field = "jobUrl" THEN "job" ELSE "content"

ClearReferralCache(userId, body) ==
  /\ UNCHANGED <<env, now, tasks>>
  /\ IF body.value = "all"
     THEN /\ jobCache' = <<>>
          /\ last' = Response("clear", userId, "all", 200, "")
     ELSE LET cacheType    == ClearCacheType(body)
              userKey      == CacheKey(userId, cacheType, body.value)
              anonymousKey == CacheKey(NoUser, cacheType, body.value)
              s1 == IF userId # NoUser
                    THEN (IF CacheHas(jobCache, userKey, now)
                          THEN CacheDel(jobCache, userKey)
                          ELSE jobCache)
                    ELSE jobCache
              s2 == IF CacheHas(s1, anonymousKey, now)
                    THEN CacheDel(s1, anonymousKey)
                    ELSE s1
          IN  /\ jobCache' = s2
              /\ last' = Response("clear", userId, body.value, 200, "")

\* --------------------------------------------------- processRawJobContent

\* Entry of the handler: a cached success is answered at once, otherwise the
\* handler suspends at extractJobDetailsFromContent.
ProcessRawJobContent(userId, contentId) ==
  LET key    == CacheKey(userId, "content", contentId)
      cached == CacheGet(jobCache, key, now)
  IN  /\ UNCHANGED <<env, now>>
      /\ jobCache' = jobCache
      /\ IF cached.status = "completed" /\ cached.success
         THEN /\ tasks' = tasks
              /\ last' = Response("content", userId, contentId, 200, cached.referralMessage)
         ELSE /\ FreeSlots(tasks) # {}
              /\ tasks' = [tasks EXCEPT ![NextSlot(tasks)] = NewTask("content", key)]
              /\ last' = last

\* await extractJobDetailsFromContent(...) returns
ContentExtracted(i) ==
  /\ tasks[i].kind = "content" /\ tasks[i].stage = "scrape"
  /\ UNCHANGED <<env, now, jobCache, last>>
  /\ tasks' = [tasks EXCEPT ![i].stage = "generate", ![i].jobData = PageJobData]

\* await generateReferralMessage(...) returns: success entry and 200
ContentReturns(i) ==
  /\ tasks[i].kind = "content" /\ tasks[i].stage = "generate"
  /\ UNCHANGED <<env, now>>
  /\ \E text \in Texts :
       LET t == tasks[i]
       IN  /\ jobCache' = CacheSet(jobCache, t.key,
                             SuccessEntry(t.key[3], t.key[1], SplitJobTitle(t.jobData),
                                          SplitCompanyName(t.jobData), text, now),
                             StdTTL, now)
           /\ tasks' = [tasks EXCEPT ![i] = Idle]
           /\ last' = Response("content", t.key[1], t.key[3], 200, text)

\* either await throws: next(error), nothing is cached
ContentThrows(i) ==
  /\ tasks[i].kind = "content"
  /\ UNCHANGED <<env, now, jobCache>>
  /\ \E thrown \in ThrownValues :
       /\ tasks' = [tasks EXCEPT ![i] = Idle]
       /\ last' = ErrorResponse("content", tasks[i].key[1], tasks[i].key[3], AsError(thrown))

\* ------------------------------------------------------------ environment

\* Time passes; the entries whose ttl has run out are gone from the cache.
Tick ==
  /\ \E t \in TimeGrid : t > now /\ now' = t /\ jobCache' = Unexpired(jobCache, t)
  /\ UNCHANGED <<env, tasks, last>>

\* The controller.  The services are taken by their outcomes here: the
\* closure's await of generateReferralMessage ends with a text or a throw
\* (GenerateReturns, GenerateThrows), whatever the message cache behind it holds;
\* the message cache itself is a part of SpecMessages.
Next ==
  \/ \E u \in Actors, j \in JobIds : GenerateReferral(u, j) /\ UNCHANGED serviceVars
  \/ \E u \in Actors, j \in JobIds : GetGeneratedReferral(u, j) /\ UNCHANGED serviceVars
  \/ \E u \in Actors, b \in ClearBodies : ClearReferralCache(u, b) /\ UNCHANGED serviceVars
  \/ \E i \in Slots : ScrapeSettles(i) /\ UNCHANGED serviceVars
  \/ \E i \in Slots : GenerateReturns(i) /\ UNCHANGED serviceVars
  \/ \E i \in Slots : GenerateThrows(i) /\ UNCHANGED serviceVars
  \/ Tick /\ UNCHANGED serviceVars

Spec == Init /\ [][Next]_vars

\* The same system with the raw-content endpoint, which shares jobCache.
NextWithContent ==
  \/ Next
  \/ \E u \in Actors, c \in ContentIds : ProcessRawJobContent(u, c) /\ UNCHANGED serviceVars
  \/ \E i \in Slots : ContentExtracted(i) /\ UNCHANGED serviceVars
  \/ \E i \in Slots : ContentReturns(i) /\ UNCHANGED serviceVars
  \/ \E i \in Slots : ContentThrows(i) /\ UNCHANGED serviceVars

SpecWithContent == Init /\ [][NextWithContent]_vars

\* ------------------------------------------------- several actor scopes

\* The scopes a request can come from: no authenticated user, or one of two
\* users.
ScopeActors == {NoUser, "u1", "u2"}

\* One configuration (the mock crawler: every fetch yields the same posting),
\* in which a task ends in success or, when the generation throws, in failure.
InitScopes ==
  /\ env = [MOCK_CRAWLER |-> TRUE, USE_DIRECT_FETCH |-> FALSE, NODE_ENV |-> "development"]
  /\ now = 0
  /\ jobCache = <<>>
  /\ tasks = [i \in Slots |-> Idle]
  /\ last = Response("none", NoUser, "", 0, "")
  /\ ServicesInit

\* scopes that have an entry in jobCache or a closure in flight
ActiveScopes(c, ts) ==
  { k[1] : k \in DOMAIN c } \cup { ts[i].key[1] : i \in { x \in Slots : ts[x].kind # "idle" } }

\* generateReferral, its closure and getGeneratedReferral, called from every
\* scope; the requests of a run keep to two scopes at a time, and the clock
\* stops past the staleness threshold.
NextScopes ==
  \/ \E u \in ScopeActors, j \in JobIds :
       /\ Cardinality(ActiveScopes(jobCache, tasks) \cup {u}) <= 2
       /\ GenerateReferral(u, j)
       /\ UNCHANGED serviceVars
  \/ \E u \in ScopeActors, j \in JobIds : GetGeneratedReferral(u, j) /\ UNCHANGED serviceVars
  \/ \E i \in Slots : ScrapeSettles(i) /\ UNCHANGED serviceVars
  \/ \E i \in Slots : GenerateReturns(i) /\ UNCHANGED serviceVars
  \/ \E i \in Slots : GenerateThrows(i) /\ UNCHANGED serviceVars
  \/ Tick /\ now' <= StaleAfter + MaxUnit /\ UNCHANGED serviceVars

SpecScopes == InitScopes /\ [][NextScopes]_vars

\* --------------------------------------- aiService: generateReferralMessage

\* stdTTL of messageCache: CACHE_TTL, 3600 s when the variable is not set.
CACHE_TTL == 3600

\* Postings handed to generateReferralMessage: title, company, description.
\* The second differs from the first in case and surrounding blanks only, the
\* third has another description that begins with the same 1000 characters.
JobInputs ==
  { [title |-> "Backend Engineer",   company |-> "Acme Corp",  description |-> "descA"],
    [title |-> " backend engineer ", company |-> "ACME CORP",  description |-> "descA"],
    [title |-> "Backend Engineer",   company |-> "Acme Corp",  description |-> "descA+tail"] }

\* text.toLowerCase().trim(), on the texts of JobInputs
LowerTrim(text) ==
  CASE text \in {"Backend Engineer", " backend engineer "} -> "backend engineer"
    [] text \in {"Acme Corp", "ACME CORP"}                  -> "acme corp"
    [] OTHER                                                -> text

\* jobDescription.slice(0, 1000)
DescriptionPreview(description) ==
  IF description = "descA+tail" THEN "descA" ELSE description

\* hashString: the 32-bit hash of the preview, as a text
HashString(text) ==
  CASE text = ""      -> "0"
    [] text = "descA" -> "hash(descA)"
    [] OTHER          -> "hash(other)"

\* generateCacheKey: `user:${userId}:${title}:${company}:${hash}` or
\* `${title}:${company}:${hash}`
GenerateCacheKey(userId, jobTitle, companyName, descriptionHash) ==
  <<userId, LowerTrim(jobTitle), LowerTrim(companyName), descriptionHash>>

\* the key of one call
MessageKey(userId, job) ==
  GenerateCacheKey(userId, job.title, job.company,
                   HashString(DescriptionPreview(job.description)))

\* What model.generateContent can return as response.text().
CompletionTexts ==
  { "Hello, please refer me", "I saw the role on HireJobs. Please refer me", "HireJobs", "" }

\* the replace(...) chain and trim() applied to the model's text
CleanedText(text) ==
  CASE text = "I saw the role on HireJobs. Please refer me" -> "I saw the role on . Please refer me"
    [] text = "HireJobs"                                    -> ""
    [] OTHER                                                -> text

\* Messages of the errors model.generateContent can throw.
CompletionErrors ==
  { "API key not valid. Please pass a valid API key.", "You exceeded your current quota", "fetch failed" }

\* the Error the catch block of generateReferralMessage throws
GenerationError(errorMessage) ==
  CASE errorMessage = "API key not valid. Please pass a valid API key." ->
         "The API key is not valid. Please check your API key settings and try again."
    [] errorMessage = "You exceeded your current quota" ->
         "API quota exceeded. Please try again later or update your API key in settings."
    [] OTHER -> "Failed to generate referral message: fetch failed"

\* A call suspended at await model.generateContent(prompt).
MessageCall(key) ==
  [kind |-> "message", key |-> key, stage |-> "complete", jobData |-> NoJobData]

\* messageCache.get<string>(cacheKey): a stored text, or undefined
MessageGet(c, k, t) ==
  IF CacheHas(c, k, t) THEN [defined |-> TRUE, text |-> c[k].v]
  ELSE [defined |-> FALSE, text |-> ""]

\* if (cachedMessage): undefined and the empty text are both falsy
CachedMessageHit(cachedMessage) == cachedMessage.defined /\ cachedMessage.text # ""

\* generateReferralMessage from the cache lookup to its return or to its await
\* of the completion; getUserApiKey yields a key or null.
GenerateReferralMessage(userId, job) ==
  LET cacheKey      == MessageKey(userId, job)
      cachedMessage == MessageGet(messageCache, cacheKey, now)
  IN  /\ UNCHANGED <<env, now, jobCache, messageCache, html, posting, gemini, reference, requests, templates, templateCalls, keyCalls>>
      /\ IF CachedMessageHit(cachedMessage)
         THEN /\ tasks' = tasks
              /\ last' = Output("message", userId, cacheKey[2], 0, "", cachedMessage.text, NoThrow)
         ELSE \E apiKey \in {"key", "null"} :
                IF apiKey = "null"
                THEN /\ tasks' = tasks
                     /\ last' = Output("message", userId, cacheKey[2], 0,
                                   "No Gemini API key available. Please add an API key in your account settings.",
                                   "", NoThrow)
                ELSE /\ FreeSlots(tasks) # {}
                     /\ tasks' = [tasks EXCEPT ![NextSlot(tasks)] = MessageCall(cacheKey)]
                     /\ last' = Output("completion", userId, cacheKey[2], 0, "", "", NoThrow)

\* await model.generateContent(prompt) returns: the cleaned text is stored
\* and returned
CompletionReturns(i) ==
  /\ tasks[i].kind = "message"
  /\ UNCHANGED <<env, now, jobCache, html, posting, gemini, reference, requests, templates, templateCalls, keyCalls>>
  /\ \E text \in CompletionTexts :
       /\ messageCache' = CacheSet(messageCache, tasks[i].key, CleanedText(text), CACHE_TTL, now)
       /\ tasks' = [tasks EXCEPT ![i] = Idle]
       /\ last' = Output("message", tasks[i].key[1], tasks[i].key[2], 0, "",
                          CleanedText(text), NoThrow)

\* await model.generateContent(prompt) throws: nothing is stored
CompletionThrows(i) ==
  /\ tasks[i].kind = "message"
  /\ UNCHANGED <<env, now, jobCache, messageCache, html, posting, gemini, reference, requests, templates, templateCalls, keyCalls>>
  /\ \E errorMessage \in CompletionErrors :
       /\ tasks' = [tasks EXCEPT ![i] = Idle]
       /\ last' = Output("message", tasks[i].key[1], tasks[i].key[2], 0,
                          GenerationError(errorMessage), "", NoThrow)

\* Time passes for messageCache as for jobCache.
TickMessages ==
  /\ Tick
  /\ messageCache' = Unexpired(messageCache, now')
  /\ UNCHANGED <<html, posting, gemini, reference, requests, templates, templateCalls, keyCalls>>

NextMessages ==
  \/ \E u \in {NoUser} \cup Users, job \in JobInputs : GenerateReferralMessage(u, job)
  \/ \E i \in Slots : CompletionReturns(i)
  \/ \E i \in Slots : CompletionThrows(i)
  \/ TickMessages

SpecMessages == InitScopes /\ [][NextMessages]_vars

\* ------------------------------------------------- parser: parseHireJobsHTML

\* The pages handed to an extraction call.  A page is the signals the
\* strategies read from it: the texts of the title and company candidates of
\* each source, the lengths of the description candidates, and the strategy
\* that raises an internal error on it ("none": none does; "page.content": the
\* browser page cannot be read at all).  The pages have no experience line and
\* no skills list.
Pages ==
  [ state            : {"page"},
    hiringTitle      : {"", "QA", "Backend Engineer", "HireJobs"},
    hiringCompany    : {"", "X", "Acme Corp"},
    titleFromMeta    : {"", "Senior Role - Careers"},
    titleFromHeader  : {"", "RE: Data Engineer"},
    sdTitle          : {"", "Platform Engineer"},
    companyFromMeta  : {"", "Globex"},
    companyFromDOM   : {"", "at Initech"},
    sdCompany        : {"", "Umbrella"},
    sectionsLen      : {0, 300},
    descriptionLen   : {0, 60, 150},
    sdDescriptionLen : {0, 200},
    additionalLen    : {0, 45},
    throws           : {"none", "parseSections", "extractHiringInfo", "page.content"} ]

\* the strategies parseHireJobsHTML runs in its Promise.all (those that raise
\* on some page of Pages)
ParserStrategies == {"parseSections"}

\* parseHiringPattern
ParseHiringPattern(h) == [title |-> h.hiringTitle, company |-> h.hiringCompany]

\* parseJobTitle
ParseJobTitle(h) == [titleFromMeta |-> h.titleFromMeta, titleFromHeader |-> h.titleFromHeader]

\* parseCompanyName
ParseCompanyName(h) == [companyFromMeta |-> h.companyFromMeta, companyFromDOM |-> h.companyFromDOM]

\* parseStructuredData (JSON-LD)
ParseStructuredData(h) ==
  [title |-> h.sdTitle, company |-> h.sdCompany, description |-> h.sdDescriptionLen]

\* Outcomes of an extraction call; description is the length of the text.
Returned(by, title, company, description) ==
  [state |-> "returned", by |-> by, title |-> title, company |-> company,
   description |-> description, error |-> ""]

Threw(by, error) ==
  [state |-> "threw", by |-> by, title |-> "", company |-> "", description |-> 0,
   error |-> error]

\* length of '\n\nAdditional Information:\n' and the lines after it
AdditionalInformation(h) == IF h.additionalLen > 0 THEN 26 + h.additionalLen ELSE 0

\* title.replace(/hirejobs/gi, '').trim(), on the texts of Pages
WithoutHireJobs(text) == IF text = "HireJobs" THEN "" ELSE text

\* the title clean-up chain of the validated parser (hirejobs, RE:, FWD:,
\* 'job details', the part after '|'), on the texts of Pages
CleanTitle(text) ==
  CASE text = "HireJobs"          -> ""
    [] text = "RE: Data Engineer" -> "Data Engineer"
    [] OTHER                      -> text

\* the company clean-up chain of the validated parser (hirejobs, leading
\* 'at', trailing 'company on'), on the texts of Pages
CleanCompany(text) ==
  CASE text = "HireJobs"   -> ""
    [] text = "at Initech" -> "Initech"
    [] OTHER               -> text

\* --- the parser of src/utils/parser.ts

\* title after hiring pattern, title data and structured data were applied
ParserTitle(h) ==
  LET t0 == IF h.hiringTitle # "" THEN h.hiringTitle ELSE "Job Position"
      t1 == IF h.titleFromMeta # "" /\ (t0 = "" \/ t0 = "Job Position") THEN h.titleFromMeta
            ELSE IF h.titleFromHeader # "" /\ (t0 = "" \/ t0 = "Job Position")
            THEN h.titleFromHeader
            ELSE t0
      t2 == IF h.sdTitle # "" /\ (t1 = "" \/ t1 = "Job Position") THEN h.sdTitle ELSE t1
      t3 == WithoutHireJobs(t2)
  IN  IF t3 = "" \/ t3 = "job details" THEN "Job Position" ELSE t3

ParserCompany(h) ==
  LET c0 == IF h.hiringCompany # "" THEN h.hiringCompany ELSE "Company"
      c1 == IF h.companyFromMeta # "" /\ (c0 = "" \/ c0 = "Company") THEN h.companyFromMeta
            ELSE IF h.companyFromDOM # "" /\ (c0 = "" \/ c0 = "Company")
            THEN h.companyFromDOM
            ELSE c0
      c2 == IF h.sdCompany # "" /\ (c1 = "" \/ c1 = "Company") THEN h.sdCompany ELSE c1
      c3 == WithoutHireJobs(c2)
  IN  IF c3 = "" \/ c3 = "Company on" THEN "Company on HireJobs" ELSE c3

ParserDescription(h) ==
  LET d0 == IF h.sectionsLen > 0 THEN h.sectionsLen ELSE 0
      d1 == IF d0 < 50 /\ h.descriptionLen > 50 THEN h.descriptionLen ELSE d0
  IN  IF h.sdDescriptionLen > 0 /\ d1 < 50 THEN h.sdDescriptionLen ELSE d1

\* the result the parser starts from and returns from its catch block
ParserInitialResult == Returned("parseHireJobsHTML", "Job Position", "Company", 0)

\* parseHireJobsHTML of src/utils/parser.ts
ParseHireJobsHTML(h) ==
  IF h.throws \in ParserStrategies THEN ParserInitialResult
  ELSE Returned("parseHireJobsHTML", ParserTitle(h), ParserCompany(h), ParserDescription(h))

\* --- the validated parser

\* A chain that asks the <title> and Open Graph tags before the hiring line.
TitleCandidates_MetaFirst(h) ==
  << ParseJobTitle(h).titleFromMeta, ParseHiringPattern(h).title,
     ParseJobTitle(h).titleFromHeader, ParseStructuredData(h).title >>

\* the candidates of the title, in the order of the if / else-if chain
TitleCandidates(h) ==
  << ParseHiringPattern(h).title, ParseJobTitle(h).titleFromMeta,
     ParseJobTitle(h).titleFromHeader, ParseStructuredData(h).title >>

\* A chain that asks the JSON-LD right after the hiring line.
CompanyCandidates_StructuredDataSecond(h) ==
  << ParseHiringPattern(h).company, ParseStructuredData(h).company,
     ParseCompanyName(h).companyFromMeta, ParseCompanyName(h).companyFromDOM >>

\* the candidates of the company, in the order of the if / else-if chain
CompanyCandidates(h) ==
  << ParseHiringPattern(h).company, ParseCompanyName(h).companyFromMeta,
     ParseCompanyName(h).companyFromDOM, ParseStructuredData(h).company >>

\* the first candidate longer than min, or ''
RECURSIVE FirstLongerThan(_, _)
FirstLongerThan(candidates, min) ==
  IF candidates = <<>> THEN ""
  ELSE IF Len(Head(candidates)) > min THEN Head(candidates)
  ELSE FirstLongerThan(Tail(candidates), min)

ValidatedDescription(h) ==
  LET d == IF h.sectionsLen > 0 THEN h.sectionsLen
           ELSE IF h.descriptionLen > 50 THEN h.descriptionLen
           ELSE IF h.sdDescriptionLen > 50 THEN h.sdDescriptionLen
           ELSE 0
  IN  d + AdditionalInformation(h)

\* parseHireJobsHTML with the validation of its result
ParseHireJobsHTMLValidated(h) ==
  LET title       == CleanTitle(FirstLongerThan(TitleCandidates(h), 3))
      company     == CleanCompany(FirstLongerThan(CompanyCandidates(h), 2))
      description == ValidatedDescription(h)
  IN  IF h.throws \in ParserStrategies
      THEN Threw("parseHireJobsHTML (validated)", "Failed to parse job details: internal error")
      ELSE IF title = "" \/ Len(title) < 3
      THEN Threw("parseHireJobsHTML (validated)", "Failed to parse job details: Could not extract valid job title")
      ELSE IF company = "" \/ Len(company) < 2
      THEN Threw("parseHireJobsHTML (validated)", "Failed to parse job details: Could not extract valid company name")
      ELSE IF description < 100
      THEN Threw("parseHireJobsHTML (validated)",
                 "Failed to parse job details: Could not extract sufficient job description")
      ELSE Returned("parseHireJobsHTML (validated)", title, company, description)

\* ---------------------------------- crawlerService: extractHireJobsData

\* trailing path segment of the page's URL, as it appears in the placeholders
JobIdOfPage == "abc123"

\* the title clean-up chain of extractHireJobsData, on the texts of Pages
CleanJobTitle(text) ==
  CASE text = "HireJobs"          -> ""
    [] text = "RE: Data Engineer" -> "Data Engineer"
    [] OTHER                      -> text

\* the company clean-up chain of extractHireJobsData, on the texts of Pages
CleanCompanyName(text) ==
  CASE text = "HireJobs"            -> ""
    [] text = "Company on HireJobs" -> ""
    [] text = "at Initech"          -> "Initech"
    [] OTHER                        -> text

\* length of getMockJobData(url).description
MockDescriptionLen == 1002

\* length of 'This is a job posting for <title> at <company>. Unfortunately,
\* detailed job description could not be extracted.'
GenericDescriptionLen(jobTitle, companyName) == 95 + Len(jobTitle) + Len(companyName)

\* extractHiringInfo(page).catch(...)
ExtractHiringInfo(h) ==
  IF h.throws = "extractHiringInfo" THEN [title |-> "", company |-> ""]
  ELSE [title |-> h.hiringTitle, company |-> h.hiringCompany]

\* parseHireJobsHTML(html).catch(...): the parser crawlerService imports
ParsedJobData(h) == ParseHireJobsHTML(h)

\* extractHireJobsData
ExtractHireJobsData(e, h) ==
  IF h.throws = "page.content"
  THEN Returned("extractHireJobsData", "Job Position (ID: " \o JobIdOfPage \o ")",
                "Company (ID: " \o JobIdOfPage \o ")", 90)
  ELSE
    LET hiringInfo == ExtractHiringInfo(h)
        parsed     == ParsedJobData(h)
        t0 == IF hiringInfo.title = "" \/ hiringInfo.title = "Job Position"
              THEN parsed.title ELSE hiringInfo.title
        c0 == IF hiringInfo.company \in {"", "Company on HireJobs", "Company on"}
              THEN parsed.company ELSE hiringInfo.company
        d0 == IF h.sectionsLen < 100 THEN parsed.description ELSE h.sectionsLen
        t1 == CleanJobTitle(t0)
        c1 == CleanCompanyName(c0)
        d1 == d0 + (IF h.throws \in ParserStrategies THEN 0 ELSE AdditionalInformation(h))
        jobTitle    == IF t1 = "" \/ Len(t1) < 3 \/ t1 = "Job Position"
                       THEN "Position (ID: " \o JobIdOfPage \o ")" ELSE t1
        companyName == IF c1 = "" \/ Len(c1) < 2 \/ c1 = "Company on"
                       THEN "Company (ID: " \o JobIdOfPage \o ")" ELSE c1
        jobDescription ==
          IF d1 < 100
          THEN (IF e.NODE_ENV = "development" \/ e.MOCK_CRAWLER
                THEN MockDescriptionLen
                ELSE GenericDescriptionLen(jobTitle, companyName))
          ELSE d1
    IN  Returned("extractHireJobsData", jobTitle, companyName, jobDescription)

\* ------------------------------------------------------ extraction calls

\* One extraction call on a page: each action applies one of the functions
\* to the page and keeps what it returned or threw.
CallParseHireJobsHTML ==
  /\ posting = NoCall
  /\ posting' = ParseHireJobsHTML(html)
  /\ UNCHANGED <<controllerVars, messageCache, html, gemini, reference, requests, templates, templateCalls, keyCalls>>

CallParseHireJobsHTMLValidated ==
  /\ posting = NoCall
  /\ posting' = ParseHireJobsHTMLValidated(html)
  /\ UNCHANGED <<controllerVars, messageCache, html, gemini, reference, requests, templates, templateCalls, keyCalls>>

CallExtractHireJobsData ==
  /\ posting = NoCall
  /\ posting' = ExtractHireJobsData(env, html)
  /\ UNCHANGED <<controllerVars, messageCache, html, gemini, reference, requests, templates, templateCalls, keyCalls>>

\* The crawler of production: no mock crawler, no development fallbacks.
InitExtraction ==
  /\ env = [MOCK_CRAWLER |-> FALSE, USE_DIRECT_FETCH |-> FALSE, NODE_ENV |-> "production"]
  /\ now = 0
  /\ jobCache = <<>>
  /\ tasks = [i \in Slots |-> Idle]
  /\ last = Response("none", NoUser, "", 0, "")
  /\ messageCache = <<>>
  /\ html \in Pages
  /\ posting = NoCall
  /\ gemini = NoCall
  /\ reference = NoCall
  /\ requests = <<>>
  /\ templates = <<>>
  /\ templateCalls = <<>>
  /\ keyCalls = <<>>

NextExtraction ==
  \/ CallParseHireJobsHTML
  \/ CallParseHireJobsHTMLValidated
  \/ CallExtractHireJobsData

SpecExtraction == InitExtraction /\ [][NextExtraction]_vars

\* ------------------------------- aiService: generateReferenceMessage

\* let models = [...]
ReferenceModels == << "gemini-1.5-flash", "gemini-1.0-pro", "gemini-pro" >>

\* What model.generateContent(prompt) does for one model identifier: it
\* resolves with a text or rejects with an Error of the given message.
GeminiAnswers ==
  { [ok |-> TRUE,  text |-> "Hello, please refer me"],
    [ok |-> TRUE,  text |-> "I saw the role on HireJobs. Please refer me"],
    [ok |-> FALSE, text |-> "[404 Not Found] models/gemini is not found for API version v1"],
    [ok |-> FALSE, text |-> "API key not valid. Please pass a valid API key."],
    [ok |-> FALSE, text |-> "You exceeded your current quota"] }

\* errorMessage.includes('Not Found') || errorMessage.includes('not found')
IncludesNotFound(errorMessage) ==
  errorMessage = "[404 Not Found] models/gemini is not found for API version v1"

\* generateMockReferenceMessage(jobTitle, companyName)
MockReferenceMessage == "I hope this email finds you well. [...] Thank you for your time and support."

\* The two versions of generateReferenceMessage: the one of aiService.ts
\* returns response.text(), the one of part_013 the text after the replace
\* chain.
ReferenceVersions == {"aiService.ts", "part_013"}

ReferenceText(version, text) == IF version = "part_013" THEN CleanedText(text) ELSE text

\* A call of generateReferenceMessage: the models it has called so far, and
\* how it ended.
ReferenceCall(state, version, calls, text, error) ==
  [state |-> state, version |-> version, calls |-> calls, text |-> text, error |-> error]

\* the outer catch block
ReferenceCatch(e, version, calls) ==
  IF e.NODE_ENV = "development"
  THEN ReferenceCall("returned", version, calls, MockReferenceMessage, "")
  ELSE ReferenceCall("threw", version, calls, "", "Failed to generate reference message")

\* generateReferenceMessage up to its first await
GenerateReferenceMessage(version) ==
  /\ reference = NoCall
  /\ reference' =
       IF env.USE_MOCK_AI \/ ~env.GEMINI_API_KEY
       THEN ReferenceCall("returned", version, <<>>, MockReferenceMessage, "")
       ELSE ReferenceCall("running", version, <<>>, "", "")
  /\ UNCHANGED <<controllerVars, messageCache, html, posting, gemini, requests, templates, templateCalls, keyCalls>>

\* await model.generateContent(prompt) settles for the model of this turn of
\* the for loop, and the call runs on to its next await or to its end
GenerateContentSettles ==
  /\ reference.state = "running"
  /\ LET modelName == ReferenceModels[Len(reference.calls) + 1]
         answer    == gemini[modelName]
         calls     == Append(reference.calls, modelName)
         version   == reference.version
     IN  reference' =
           IF answer.ok
           THEN ReferenceCall("returned", version, calls, ReferenceText(version, answer.text), "")
           ELSE IF ~IncludesNotFound(answer.text)
           THEN ReferenceCatch(env, version, calls)
           ELSE IF Len(calls) < Len(ReferenceModels)
           THEN ReferenceCall("running", version, calls, "", answer.text)
           ELSE ReferenceCatch(env, version, calls)
  /\ UNCHANGED <<controllerVars, messageCache, html, posting, gemini, requests, templates, templateCalls, keyCalls>>

InitReference ==
  /\ env \in [ MOCK_CRAWLER : {FALSE}, USE_DIRECT_FETCH : {FALSE},
                NODE_ENV : {"development", "production"},
                USE_MOCK_AI : BOOLEAN, GEMINI_API_KEY : BOOLEAN ]
  /\ now = 0
  /\ jobCache = <<>>
  /\ tasks = [i \in Slots |-> Idle]
  /\ last = Response("none", NoUser, "", 0, "")
  /\ messageCache = <<>>
  /\ html = NoCall
  /\ posting = NoCall
  /\ gemini \in [ {ReferenceModels[i] : i \in 1..Len(ReferenceModels)} -> GeminiAnswers ]
  /\ reference = NoCall
  /\ requests = <<>>
  /\ templates = <<>>
  /\ templateCalls = <<>>
  /\ keyCalls = <<>>

NextReference ==
  \/ \E version \in ReferenceVersions : GenerateReferenceMessage(version)
  \/ GenerateContentSettles

SpecReference == InitReference /\ [][NextReference]_vars

\* --------------------------------- validators, extractJobId: job URLs

\* A job URL as the text between its '/' characters and its '?' and '#':
\* host, the segments of the path, the query after '?' and the fragment
\* after '#', each a sequence of the texts between the slashes it holds
\* (<<>> when the URL has no '?' or no '#').
Hosts == {"hirejobs.in", "www.hirejobs.in", "hirejobs.in.example.com"}

Paths == { <<"jobs", "abc123">>, <<"jobs", "xyz789">>, <<"jobs", "abc-123">>, <<"jobs", "abc123", "">> }

Queries == { <<>>, <<"ref=home">>, <<"next=", "jobs", "xyz789">>, <<"back=", "">> }

Fragments == { <<>>, <<"apply">> }

JobUrls == [host : Hosts, path : Paths, query : Queries, fragment : Fragments]

\* [a-zA-Z0-9]+ on the segments of Paths
Alphanumeric == {"abc123", "xyz789"}

\* the texts between the '/' of the URL string 'https://<host>/<path>?<query>#<fragment>':
\* url.split('/')
RECURSIVE JoinFirst(_, _, _)
JoinFirst(pieces, mark, rest) ==
  \* pieces, whose last text runs on with mark and the first text of rest
  IF rest = <<>> THEN pieces
  ELSE SubSeq(pieces, 1, Len(pieces) - 1)
         \o << pieces[Len(pieces)] \o mark \o Head(rest) >>
         \o Tail(rest)

SplitOnSlash(url) ==
  LET upToPath   == << "https:", "", url.host >> \o url.path
      upToQuery  == JoinFirst(upToPath, "?", url.query)
  IN  JoinFirst(upToQuery, "#", url.fragment)

\* new URL(url).pathname
Pathname(url) == url.path

\* isHireJobsUrl
IsHireJobsUrl(url) ==
  /\ url.host \in {"hirejobs.in", "www.hirejobs.in"}
  /\ Len(Pathname(url)) = 2
  /\ Pathname(url)[1] = "jobs"
  /\ Pathname(url)[2] \in Alphanumeric

\* extractJobId: url.split('/').pop() || 'unknown'
ExtractJobId(url) ==
  LET parts == SplitOnSlash(url)
  IN  IF parts[Len(parts)] = "" THEN "unknown" ELSE parts[Len(parts)]

\* A request with body {jobUrl}: received, then rejected by
\* validateJobUrlRequest (400) or accepted, then handled.
Request(jobUrl, stage, jobId, cacheKey) ==
  [jobUrl |-> jobUrl, stage |-> stage, jobId |-> jobId, cacheKey |-> cacheKey]

RequestSlots == 1..2

\* validateJobUrlRequest
ValidateJobUrlRequest(i) ==
  /\ requests[i].stage = "received"
  /\ requests' = [requests EXCEPT ![i].stage =
                    IF IsHireJobsUrl(requests[i].jobUrl) THEN "accepted" ELSE "rejected"]
  /\ UNCHANGED <<controllerVars, messageCache, html, posting, gemini, reference, templates, templateCalls, keyCalls>>

\* the first lines of generateReferral / getGeneratedReferral: jobId and
\* cacheKey of the request
HandlerExtractsJobId(userId, i) ==
  /\ requests[i].stage = "accepted"
  /\ LET jobId == ExtractJobId(requests[i].jobUrl)
     IN  requests' = [requests EXCEPT ![i] =
                       Request(requests[i].jobUrl, "handled", jobId, CacheKey(userId, "job", jobId))]
  /\ UNCHANGED <<controllerVars, messageCache, html, posting, gemini, reference, templates, templateCalls, keyCalls>>

InitUrls ==
  /\ env = [MOCK_CRAWLER |-> TRUE, USE_DIRECT_FETCH |-> FALSE, NODE_ENV |-> "development"]
  /\ now = 0
  /\ jobCache = <<>>
  /\ tasks = [i \in Slots |-> Idle]
  /\ last = Response("none", NoUser, "", 0, "")
  /\ messageCache = <<>>
  /\ html = NoCall
  /\ posting = NoCall
  /\ gemini = NoCall
  /\ reference = NoCall
  /\ requests \in [RequestSlots -> {Request(u, "received", "", <<>>) : u \in JobUrls}]
  /\ templates = <<>>
  /\ templateCalls = <<>>
  /\ keyCalls = <<>>

NextUrls ==
  \/ \E i \in RequestSlots : ValidateJobUrlRequest(i)
  \/ \E i \in RequestSlots : HandlerExtractsJobId("u1", i)

SpecUrls == InitUrls /\ [][NextUrls]_vars

\* ------------------------------------------- a closure that never ends

\* tasks that are suspended for good
Hung(ts) == { i \in Slots : ts[i].stage = "hung" }

\* The await a closure is suspended at never settles (a fetch or a completion
\* call that hangs): the closure stays suspended, its entry stays Processing.
\* One slot is left to the closures that do end.
TaskHangs(i) ==
  /\ tasks[i].kind = "url" /\ tasks[i].stage \in {"scrape", "generate"}
  /\ Cardinality(Hung(tasks)) < MaxTasks - 1
  /\ tasks' = [tasks EXCEPT ![i].stage = "hung"]
  /\ UNCHANGED <<env, now, jobCache, last>>

\* a step of the closure in slot i
TaskStep(i) == ScrapeSettles(i) \/ GenerateReturns(i) \/ GenerateThrows(i)

InitHung ==
  /\ env = [MOCK_CRAWLER |-> TRUE, USE_DIRECT_FETCH |-> FALSE, NODE_ENV |-> "development"]
  /\ now = 0
  /\ jobCache = <<>>
  /\ tasks = [i \in Slots |-> Idle]
  /\ last = Response("none", NoUser, "", 0, "")
  /\ ServicesInit

\* clearReferralCache is left to Spec: here an entry goes away by its age only.
NextHung ==
  \/ \E u \in Actors, j \in JobIds : GenerateReferral(u, j) /\ UNCHANGED serviceVars
  \/ \E u \in Actors, j \in JobIds : GetGeneratedReferral(u, j) /\ UNCHANGED serviceVars
  \/ \E i \in Slots : TaskStep(i) /\ UNCHANGED serviceVars
  \/ \E i \in Slots : TaskHangs(i) /\ UNCHANGED serviceVars
  \/ Tick /\ UNCHANGED serviceVars

\* The client keeps calling generateReferral, time passes, and the event loop
\* resumes every closure whose await settles.
SpecHung ==
  /\ InitHung /\ [][NextHung]_vars
  /\ \A u \in Actors, j \in JobIds : WF_vars(GenerateReferral(u, j) /\ UNCHANGED serviceVars)
  /\ WF_vars(Tick /\ UNCHANGED serviceVars)
  /\ \A i \in Slots : WF_vars(TaskStep(i) /\ UNCHANGED serviceVars)

\* ------------------------------------- templateController, templateModel

Owners == {"u1", "u2"}

TemplateIds == {"t1", "t2"}

\* requests being handled at one time
TemplateCallers == {"a", "b"}

\* req.body.isDefault
IsDefaultInputs == {"true", "false", "undefined"}

NoTemplate == [exists |-> FALSE, userId |-> "", isDefault |-> FALSE]

\* a deleted document: an _id is never given out again
DeletedTemplate == [exists |-> FALSE, userId |-> "deleted", isDefault |-> FALSE]

\* the _ids not given out yet
FreeIds(coll) == { id \in TemplateIds : coll[id] = NoTemplate }

TemplateDoc(userId, isDefault) == [exists |-> TRUE, userId |-> userId, isDefault |-> isDefault]

\* the documents of owner that are marked default
DefaultsOf(coll, owner) ==
  { id \in TemplateIds : coll[id].exists /\ coll[id].userId = owner /\ coll[id].isDefault }

\* Template.updateMany({userId, isDefault: true}, {$set: {isDefault: false}})
UpdateManyUnsetDefault(coll, owner) ==
  [id \in TemplateIds |-> IF id \in DefaultsOf(coll, owner)
                            THEN [coll[id] EXCEPT !.isDefault = FALSE] ELSE coll[id]]

\* the unique partial index {userId: 1, isDefault: 1} on isDefault = true:
\* writing a default document of owner at id is a duplicate key (E11000)
\* when the owner has another default document
DuplicateKey(coll, owner, id) == DefaultsOf(coll, owner) \ {id} # {}

\* A request: the handler, the database operation it awaits, the request's
\* inputs and what the handler holds (the document findOne loaded); status is
\* that of the response once the handler has ended.
TemplateCall(op, stage, userId, id, isDefault, loaded, status) ==
  [op |-> op, stage |-> stage, userId |-> userId, id |-> id, isDefault |-> isDefault,
   loaded |-> loaded, status |-> status]

NoTemplateCall == TemplateCall("none", "ended", "", "", "undefined", FALSE, 0)

\* A handler ends: its response is kept, the rest of the request is gone.
Ended(call, id, status) ==
  TemplateCall(call.op, "ended", call.userId, id, call.isDefault, FALSE, status)

TemplateVarsUnchanged ==
  UNCHANGED <<controllerVars, messageCache, html, posting, gemini, reference, requests, keyCalls>>

\* createTemplate up to its first await
CreateTemplate(c, userId, isDefault) ==
  /\ templateCalls[c].stage = "ended"
  /\ Cardinality(FreeIds(templates))
       > Cardinality({ o \in TemplateCallers : templateCalls[o].op = "create"
                                                /\ templateCalls[o].stage # "ended" })
  /\ templateCalls' = [templateCalls EXCEPT ![c] =
       TemplateCall("create", IF isDefault = "true" THEN "updateMany" ELSE "create",
                    userId, "", isDefault, FALSE, 0)]
  /\ UNCHANGED templates
  /\ TemplateVarsUnchanged

\* updateTemplate, deleteTemplate up to their first await
UpdateTemplate(c, userId, id, isDefault) ==
  /\ templateCalls[c].stage = "ended"
  /\ templateCalls' = [templateCalls EXCEPT ![c] =
       TemplateCall("update", "findOne", userId, id, isDefault, FALSE, 0)]
  /\ UNCHANGED templates
  /\ TemplateVarsUnchanged

DeleteTemplate(c, userId, id) ==
  /\ templateCalls[c].stage = "ended"
  /\ templateCalls' = [templateCalls EXCEPT ![c] =
       TemplateCall("delete", "findOne", userId, id, "undefined", FALSE, 0)]
  /\ UNCHANGED templates
  /\ TemplateVarsUnchanged

\* await Template.updateMany(...) settles
UpdateManySettles(c) ==
  LET call == templateCalls[c]
  IN  /\ call.stage = "updateMany"
      /\ templates' = UpdateManyUnsetDefault(templates, call.userId)
      /\ templateCalls' = [templateCalls EXCEPT ![c].stage =
                             IF call.op = "create" THEN "create" ELSE "save"]
      /\ TemplateVarsUnchanged

\* await Template.create(...) settles: the document is inserted under a new
\* _id, or the insert is refused by the unique index
CreateSettles(c) ==
  LET call == templateCalls[c]
      isDefault == call.isDefault = "true"
  IN  /\ call.stage = "create"
      /\ IF isDefault /\ DefaultsOf(templates, call.userId) # {}
         THEN /\ templates' = templates
              /\ templateCalls' = [templateCalls EXCEPT ![c] = Ended(call, "", 400)]
         ELSE \E id \in FreeIds(templates) :
                /\ templates' = [templates EXCEPT ![id] = TemplateDoc(call.userId, isDefault)]
                /\ templateCalls' = [templateCalls EXCEPT ![c] = Ended(call, id, 201)]
      /\ TemplateVarsUnchanged

\* await Template.findOne({_id, userId}) settles
FindOneSettles(c) ==
  LET call  == templateCalls[c]
      found == templates[call.id].exists /\ templates[call.id].userId = call.userId
      loaded == templates[call.id].isDefault
  IN  /\ call.stage = "findOne"
      /\ templates' = templates
      /\ templateCalls' = [templateCalls EXCEPT ![c] =
           IF ~found THEN Ended(call, call.id, 404)
           ELSE IF call.op = "delete"
           THEN [call EXCEPT !.stage = "deleteOne"]
           ELSE IF call.isDefault = "true" /\ ~loaded
           THEN [call EXCEPT !.stage = "updateMany", !.loaded = loaded]
           ELSE [call EXCEPT !.stage = "save", !.loaded = loaded]]
      /\ TemplateVarsUnchanged

\* await template.save() settles: save() writes the paths whose value the
\* handler changed; isDefault is one of them when the request gave a value
\* other than the loaded one
SaveSettles(c) ==
  LET call     == templateCalls[c]
      value    == call.isDefault = "true"
      modified == call.isDefault # "undefined" /\ value # call.loaded
  IN  /\ call.stage = "save"
      /\ IF ~templates[call.id].exists
         THEN /\ templates' = templates
              /\ templateCalls' = [templateCalls EXCEPT ![c] = Ended(call, call.id, 500)]
         ELSE IF modified /\ value /\ DuplicateKey(templates, call.userId, call.id)
         THEN /\ templates' = templates
              /\ templateCalls' = [templateCalls EXCEPT ![c] = Ended(call, call.id, 400)]
         ELSE /\ templates' = IF modified
                              THEN [templates EXCEPT ![call.id].isDefault = value]
                              ELSE templates
              /\ templateCalls' = [templateCalls EXCEPT ![c] = Ended(call, call.id, 200)]
      /\ TemplateVarsUnchanged

\* await template.deleteOne() settles
DeleteOneSettles(c) ==
  LET call == templateCalls[c]
  IN  /\ call.stage = "deleteOne"
      /\ templates' = [templates EXCEPT ![call.id] = DeletedTemplate]
      /\ templateCalls' = [templateCalls EXCEPT ![c] = Ended(call, call.id, 200)]
      /\ TemplateVarsUnchanged

InitTemplates ==
  /\ env = [MOCK_CRAWLER |-> TRUE, USE_DIRECT_FETCH |-> FALSE, NODE_ENV |-> "development"]
  /\ now = 0
  /\ jobCache = <<>>
  /\ tasks = [i \in Slots |-> Idle]
  /\ last = Response("none", NoUser, "", 0, "")
  /\ messageCache = <<>>
  /\ html = NoCall
  /\ posting = NoCall
  /\ gemini = NoCall
  /\ reference = NoCall
  /\ requests = <<>>
  /\ templates = [id \in TemplateIds |-> NoTemplate]
  /\ templateCalls = [c \in TemplateCallers |-> NoTemplateCall]
  /\ keyCalls = <<>>

NextTemplates ==
  \/ \E c \in TemplateCallers, u \in Owners, d \in IsDefaultInputs : CreateTemplate(c, u, d)
  \/ \E c \in TemplateCallers, u \in Owners, id \in TemplateIds, d \in IsDefaultInputs :
       UpdateTemplate(c, u, id, d)
  \/ \E c \in TemplateCallers, u \in Owners, id \in TemplateIds : DeleteTemplate(c, u, id)
  \/ \E c \in TemplateCallers : UpdateManySettles(c)
  \/ \E c \in TemplateCallers : CreateSettles(c)
  \/ \E c \in TemplateCallers : FindOneSettles(c)
  \/ \E c \in TemplateCallers : SaveSettles(c)
  \/ \E c \in TemplateCallers : DeleteOneSettles(c)

SpecTemplates == InitTemplates /\ [][NextTemplates]_vars

\* ------------------------- aiService: getActiveTemplate and the message cache

\* A template's content is told by the document that holds it; the template
\* built into getActiveTemplate is "built-in".
BuiltInTemplate == "built-in"

\* documents without a userId are the system's
SystemOwner == ""

\* getActiveTemplate: the user's default, else the system's, else the built-in one
GetActiveTemplate(coll, userId) ==
  IF userId # NoUser /\ DefaultsOf(coll, userId) # {}
  THEN CHOOSE id \in DefaultsOf(coll, userId) : TRUE
  ELSE IF DefaultsOf(coll, SystemOwner) # {}
  THEN CHOOSE id \in DefaultsOf(coll, SystemOwner) : TRUE
  ELSE BuiltInTemplate

\* createPrompt(templateContent, ...) and the completion: the text the model
\* writes follows the template of its prompt
MessageFollowing(templateContent) == "Hello, please refer me (as in " \o templateContent \o ")"

\* A call suspended at await model.generateContent(prompt), with the
\* templateContent it resolved.
MessageCallWith(key, templateContent) ==
  [kind |-> "message", key |-> key, stage |-> "complete", jobData |-> NoJobData,
   templateContent |-> templateContent]

\* generateReferralMessage from getActiveTemplate to its return (cache hit) or
\* to its await of the completion
ReferralMessageCall(userId, job) ==
  LET templateContent == GetActiveTemplate(templates, userId)
      cacheKey        == MessageKey(userId, job)
      cachedMessage   == MessageGet(messageCache, cacheKey, now)
  IN  /\ UNCHANGED <<env, now, jobCache, messageCache, html, posting, gemini, reference,
                     requests, templates, templateCalls, keyCalls>>
      /\ IF CachedMessageHit(cachedMessage)
         THEN /\ tasks' = tasks
              /\ last' = Output("message", userId, cacheKey[2], 0, "", cachedMessage.text, NoThrow)
         ELSE /\ FreeSlots(tasks) # {}
              /\ tasks' = [tasks EXCEPT ![NextSlot(tasks)] = MessageCallWith(cacheKey, templateContent)]
              /\ last' = Output("completion", userId, cacheKey[2], 0, "", "", NoThrow)

\* await model.generateContent(prompt) returns the text written after the
\* prompt's template: it is cleaned, stored and returned
ReferralCompletionReturns(i) ==
  /\ tasks[i].kind = "message"
  /\ UNCHANGED <<env, now, jobCache, html, posting, gemini, reference, requests, templates,
                 templateCalls, keyCalls>>
  /\ LET cleanedText == CleanedText(MessageFollowing(tasks[i].templateContent))
     IN  /\ messageCache' = CacheSet(messageCache, tasks[i].key, cleanedText, CACHE_TTL, now)
         /\ tasks' = [tasks EXCEPT ![i] = Idle]
         /\ last' = Output("message", tasks[i].key[1], tasks[i].key[2], 0, "", cleanedText, NoThrow)

\* updateTemplate(id, {isDefault}) of the owner, run alone from findOne to
\* save: the document becomes the owner's only default, or stops being one
ActiveTemplateChanges(userId, id, isDefault) ==
  /\ templates[id].exists /\ templates[id].userId = userId
  /\ templates[id].isDefault # isDefault
  /\ templates' = [ (IF isDefault THEN UpdateManyUnsetDefault(templates, userId) ELSE templates)
                      EXCEPT ![id].isDefault = isDefault ]
  /\ last' = Output("template", userId, id, 200, "", "", NoThrow)
  /\ UNCHANGED <<env, now, jobCache, tasks, messageCache, html, posting, gemini, reference,
                 requests, templateCalls, keyCalls>>

TickActiveTemplate ==
  /\ Tick
  /\ messageCache' = Unexpired(messageCache, now')
  /\ UNCHANGED <<html, posting, gemini, reference, requests, templates, templateCalls, keyCalls>>

\* The user has two templates, the first one the default; the system may have
\* a default of its own.
InitActiveTemplate ==
  /\ env = [MOCK_CRAWLER |-> TRUE, USE_DIRECT_FETCH |-> FALSE, NODE_ENV |-> "development"]
  /\ now = 0
  /\ jobCache = <<>>
  /\ tasks = [i \in Slots |-> Idle]
  /\ last = Response("none", NoUser, "", 0, "")
  /\ messageCache = <<>>
  /\ html = NoCall
  /\ posting = NoCall
  /\ gemini = NoCall
  /\ reference = NoCall
  /\ requests = <<>>
  /\ templates \in { [t1 |-> TemplateDoc("u1", TRUE), t2 |-> second] :
                       second \in {TemplateDoc("u1", FALSE), TemplateDoc(SystemOwner, TRUE)} }
  /\ templateCalls = <<>>
  /\ keyCalls = <<>>

NextActiveTemplate ==
  \/ \E u \in {NoUser} \cup Users, job \in JobInputs : ReferralMessageCall(u, job)
  \/ \E i \in Slots : ReferralCompletionReturns(i)
  \/ \E u \in Users, id \in TemplateIds, d \in BOOLEAN : ActiveTemplateChanges(u, id, d)
  \/ TickActiveTemplate

SpecActiveTemplate == InitActiveTemplate /\ [][NextActiveTemplate]_vars

\* ======================================================================
\* Properties
\* ======================================================================

\* job cache keys of the callers
JobKeys == { CacheKey(u, "job", j) : u \in Actors, j \in JobIds }

HoldsProcessing(c, k) == k \in DOMAIN c /\ c[k].v.status = "processing"

HoldsTerminal(c, k) == k \in DOMAIN c /\ c[k].v.status = "completed"

HoldsFailure(c, k) == HoldsTerminal(c, k) /\ ~c[k].v.success

HoldsSuccess(c, k) == HoldsTerminal(c, k) /\ c[k].v.success

\* slots in which a background closure for key k starts in this step
StartedFor(k) ==
  { i \in Slots : tasks[i].kind = "idle" /\ tasks'[i].kind = "url" /\ tasks'[i].key = k }

\* slots whose background closure ends in this step
EndedIn == { i \in Slots : tasks[i].kind = "url" /\ tasks'[i].kind = "idle" }

\* C1: for every job cache key, at most one background task for that key is
\* in flight in every reachable state.
C1_AtMostOneTaskInFlight ==
  \A k \in JobKeys : Cardinality(InFlightFor(tasks, k)) <= 1

\* C2: a generateReferral call starts a background task for a key only when
\* the key holds no entry; it then inserts the Processing entry in the same
\* step, and no step starts more than one task for a key.  So no call starts
\* a second task while the key holds a fresh Processing or a Completed entry.
C2_SubmitStartsOnlyOnAbsentKey ==
  [][\A k \in JobKeys :
       /\ Cardinality(StartedFor(k)) <= 1
       /\ StartedFor(k) # {} =>
            /\ k \notin DOMAIN jobCache
            /\ HoldsProcessing(jobCache', k)
            /\ jobCache'[k].v.startedAt = now
       /\ (k \in DOMAIN jobCache /\ ~(HoldsProcessing(jobCache, k) /\ now - jobCache[k].v.startedAt > 120))
            => Cardinality(InFlightFor(tasks', k)) <= Cardinality(InFlightFor(tasks, k))]_vars

\* C2 witness: generateReferral has answered on a key that holds a completed
\* success entry, and no task is in flight for the key.
C2_Witness ==
  \E k \in JobKeys :
    /\ HoldsSuccess(jobCache, k)
    /\ last.op = "generate" /\ last.status = 202
    /\ InFlightFor(tasks, k) = {}

\* C3: every write of a Completed entry by a background task happens while
\* the task's key holds a Processing entry.
C3_CompletedWrittenOverProcessing ==
  [][\A i \in EndedIn : HoldsProcessing(jobCache, tasks[i].key)]_vars

\* C4: a terminal entry of a key is never replaced by another terminal entry.
C4_TerminalNeverReplaced ==
  [][\A k \in JobKeys :
       (HoldsTerminal(jobCache, k) /\ HoldsTerminal(jobCache', k))
         => jobCache'[k] = jobCache[k]]_vars

\* the key holds a Processing entry older than 120 s
HoldsStale(k) == HoldsProcessing(jobCache, k) /\ now - jobCache[k].v.startedAt > 120

\* C5 (as stated): generateReferral answers 202 with the jobId whatever the
\* key's entry is.
C5_Always202 ==
  [][\A u \in Actors, j \in JobIds :
       GenerateReferral(u, j) => (last'.status = 202 /\ last'.jobId = j)]_vars

\* C5 (amended): generateReferral answers at once in every state of the entry:
\* 202 with the jobId when the key is absent or holds a fresh Processing, a
\* stale Processing or a CompletedSuccess entry, and 422 with the cached error
\* text (or 'Failed to process job data' when that text is empty) when it
\* holds a CompletedFailure entry.
C5_202Except422OnCachedFailure ==
  [][\A u \in Actors, j \in JobIds :
       GenerateReferral(u, j) =>
         LET k == CacheKey(u, "job", j)
         IN  /\ last'.op = "generate"
             /\ IF HoldsFailure(jobCache, k)
                THEN /\ last'.status = 422
                     /\ last'.error = IF jobCache[k].v.error = ""
                                      THEN "Failed to process job data"
                                      ELSE jobCache[k].v.error
                ELSE /\ last'.status = 202
                     /\ last'.jobId = j
                     /\ last'.error = ""]_vars

\* C5 witness: generateReferral has answered 422 on a key holding a failure.
C5_Witness ==
  \E k \in JobKeys :
    HoldsFailure(jobCache, k) /\ last.op = "generate" /\ last.status = 422

\* C6: a generateReferral call that finds a stale Processing entry leaves the
\* key with a fresh Processing entry and has started a new background task.
C6_StaleEvictedAndResubmitted ==
  [][\A u \in Actors, j \in JobIds :
       LET k == CacheKey(u, "job", j)
       IN  (GenerateReferral(u, j) /\ HoldsStale(k)) =>
             /\ HoldsProcessing(jobCache', k)
             /\ jobCache'[k].v.startedAt = now
             /\ StartedFor(k) # {}]_vars

\* C7: a background task writes CompletedSuccess only when the page fetch, the
\* extraction and the generation all succeeded (outside mock mode: its job
\* data came from the page); a failed fetch or extraction ends in
\* CompletedFailure.
C7_SuccessOnlyWhenAllStagesSucceeded ==
  [][\A i \in EndedIn :
       HoldsSuccess(jobCache', tasks[i].key) /\ last'.op = "taskCompleted"
         => (env.MOCK_CRAWLER \/ tasks[i].jobData.source = "page")]_vars

\* C8: a CompletedFailure entry stays readable until 300 s after it was
\* written and is gone afterwards, a CompletedSuccess entry until 3600 s
\* after it was written; getGeneratedReferral answers 404 exactly when the key
\* holds no entry, 422 on a failure and 200 on a success; generateReferral on
\* a key without entry starts a new background task.
C8_FailureAndSuccessTTL ==
  [][/\ \A k \in JobKeys :
          /\ HoldsFailure(jobCache, k) => now <= jobCache[k].v.timestamp + 300
          /\ HoldsSuccess(jobCache, k) => now <= jobCache[k].v.timestamp + 3600
          /\ (now' > now /\ HoldsFailure(jobCache, k)) =>
               (k \in DOMAIN jobCache' <=> now' <= jobCache[k].v.timestamp + 300)
          /\ (now' > now /\ HoldsSuccess(jobCache, k)) =>
               (k \in DOMAIN jobCache' <=> now' <= jobCache[k].v.timestamp + 3600)
     /\ \A u \in Actors, j \in JobIds :
          LET k == CacheKey(u, "job", j)
          IN  /\ GetGeneratedReferral(u, j) =>
                   /\ last'.status = 404 <=> k \notin DOMAIN jobCache
                   /\ HoldsFailure(jobCache, k) => last'.status = 422
                   /\ HoldsSuccess(jobCache, k) => last'.status = 200
              /\ (GenerateReferral(u, j) /\ k \notin DOMAIN jobCache) =>
                   StartedFor(k) # {}]_vars

\* C8 witness: a task has failed, more than 300 s have passed since, and the
\* key holds no entry any more (nothing but the passing of time removed it).
C8_Witness ==
  \E k \in JobKeys :
    /\ last.op = "taskFailed" /\ CacheKey(last.userId, "job", last.jobId) = k
    /\ k \notin DOMAIN jobCache
    /\ now > 300

\* C9 (as stated): the error text a poll delivers for a failed task is
\* exactly the message of the error that ended the task.
C9_ErrorTextVerbatim ==
  [][\A u \in Actors, j \in JobIds :
       (/\ GetGeneratedReferral(u, j)
        /\ last.op = "taskFailed" /\ last.userId = u /\ last.jobId = j
        /\ last.thrown.isError
        /\ HoldsFailure(jobCache, CacheKey(u, "job", j)))
         => last'.error = last.thrown.message]_vars

\* the text a poll is to deliver for a value that ended a task
C9_ExpectedText(thrown) ==
  IF ~thrown.isError THEN "Unknown error"
  ELSE IF thrown.message = "" THEN "Could not extract job details from HireJobs"
  ELSE thrown.message

\* C9 (amended): the poll answers 422 and the text is the message of the
\* error that ended the task when that message is not empty; an empty message
\* is delivered as 'Could not extract job details from HireJobs' and a thrown
\* value that is no Error as 'Unknown error'.
C9_ErrorTextVerbatimUnlessEmpty ==
  [][\A u \in Actors, j \in JobIds :
       (/\ GetGeneratedReferral(u, j)
        /\ last.op = "taskFailed" /\ last.userId = u /\ last.jobId = j
        /\ HoldsFailure(jobCache, CacheKey(u, "job", j)))
         => (last'.status = 422 /\ last'.error = C9_ExpectedText(last.thrown))]_vars

\* C9 witness: a poll has delivered the message of a task's error.
C9_Witness ==
  /\ last.op = "result" /\ last.status = 422
  /\ last.error = "crawler navigation timed out"

\* C10 (as stated): generateReferral and getGeneratedReferral clear a stale
\* Processing entry and do not answer with an error.
C10_StaleClearedWithoutError ==
  [][\A u \in Actors, j \in JobIds :
       LET k == CacheKey(u, "job", j)
       IN  ((GenerateReferral(u, j) \/ GetGeneratedReferral(u, j)) /\ HoldsStale(k))
             => (k \notin DOMAIN jobCache' /\ last'.status < 400)]_vars

\* C10 (amended): both handlers delete a stale Processing entry, so that a
\* later generateReferral can start afresh; generateReferral answers 202,
\* getGeneratedReferral answers 500 'Processing is taking too long. Please
\* try again.'.
C10_StaleClearedPollAnswers500 ==
  [][\A u \in Actors, j \in JobIds :
       LET k == CacheKey(u, "job", j)
       IN  /\ (GenerateReferral(u, j) /\ HoldsStale(k))
                => (k \notin DOMAIN jobCache' /\ last'.status = 202)
           /\ (GetGeneratedReferral(u, j) /\ HoldsStale(k))
                => /\ k \notin DOMAIN jobCache'
                   /\ last'.status = 500
                   /\ last'.error = "Processing is taking too long. Please try again."]_vars

\* C10 witness: a poll has met a stale Processing entry and deleted it.
C10_Witness ==
  \E k \in JobKeys :
    /\ last.op = "result" /\ last.status = 500
    /\ k \notin DOMAIN jobCache
    /\ InFlightFor(tasks, k) # {}

\* C11: a background task for a key starts only in a generateReferral step
\* for that key; and once a task has written CompletedFailure, no fetch or
\* generation step of any task runs for that key while the entry is there
\* (until a later generateReferral finds the key without an entry).
C11_NoRetryAfterFailure ==
  [][\A k \in JobKeys :
       /\ StartedFor(k) # {} =>
            \E u \in Actors, j \in JobIds : CacheKey(u, "job", j) = k /\ GenerateReferral(u, j)
       /\ HoldsFailure(jobCache, k) =>
            \A i \in InFlightFor(tasks, k) : tasks'[i] = tasks[i]]_vars

\* key k holds the same thing (nothing, or the same entry with the same expiry)
\* in stores c and d
SameEntry(c, d, k) ==
  /\ k \in DOMAIN c <=> k \in DOMAIN d
  /\ k \in DOMAIN c => c[k] = d[k]

\* C12: for one job id and two different scopes, a step made under one scope
\* (generateReferral, getGeneratedReferral, or a step of a closure started
\* under it) leaves the job cache entry of the other scope as it is (neither
\* created, overwritten nor removed), and what the step does and answers is
\* decided by the entry of its own scope: a poll answers 404 exactly when its
\* own key holds nothing, 200 only with the text of its own success entry and
\* 422 only on its own failure entry; a submit starts a task exactly when its
\* own key holds nothing and answers 422 exactly on its own failure entry.
C12_ScopesPartitionJobCache ==
  [][\A u \in ScopeActors, j \in JobIds :
       LET own    == CacheKey(u, "job", j)
           \* the step is a submit, or a poll, under scope u (told first by
           \* the answer it leaves)
           submit == last'.op = "generate" /\ last'.userId = u /\ GenerateReferral(u, j)
           poll   == last'.op = "result" /\ last'.userId = u /\ GetGeneratedReferral(u, j)
           \* the step is one of a closure started under scope u
           closure == tasks' # tasks /\ \E i \in InFlightFor(tasks, own) : tasks'[i] # tasks[i]
       IN  /\ (submit \/ poll \/ closure)
              => \A v \in ScopeActors \ {u} :
                   SameEntry(jobCache, jobCache', CacheKey(v, "job", j))
           /\ poll =>
                /\ last'.status = 404 <=> own \notin DOMAIN jobCache
                /\ last'.status = 200 =>
                     (HoldsSuccess(jobCache, own)
                        /\ last'.message = jobCache[own].v.referralMessage)
                /\ last'.status = 422 => HoldsFailure(jobCache, own)
           /\ submit =>
                /\ StartedFor(own) # {} <=> own \notin DOMAIN jobCache
                /\ last'.status = 422 <=> HoldsFailure(jobCache, own)]_vars

\* C12 witness: for one job id the entries of two scopes differ (a failure
\* under one, a success under the other) and a poll under the second scope
\* has been answered with its success.
C12_Witness ==
  \E u \in ScopeActors, v \in ScopeActors, j \in JobIds :
    /\ u # v
    /\ HoldsFailure(jobCache, CacheKey(u, "job", j))
    /\ HoldsSuccess(jobCache, CacheKey(v, "job", j))
    /\ last.op = "result" /\ last.userId = v /\ last.status = 200

\* C13: a generateReferralMessage call made while messageCache holds a text
\* for its key (stored by an earlier call with the same title, company and
\* description under the same scope, less than the cache TTL ago) does not
\* invoke the completion model and returns exactly the stored text, whatever
\* that text is.
C13_SecondCallServedFromCache ==
  [][\A u \in {NoUser} \cup Users, job \in JobInputs :
       LET k == MessageKey(u, job)
       IN  (GenerateReferralMessage(u, job) /\ k \in DOMAIN messageCache) =>
             /\ tasks' = tasks
             /\ last'.op = "message" /\ last'.error = ""
             /\ last'.message = messageCache[k].v]_vars

\* the page has no description candidate of 100 characters or more
NoDescriptionOf100(h) ==
  h.sectionsLen < 100 /\ h.descriptionLen < 100 /\ h.sdDescriptionLen < 100

\* C14: every posting an extraction call returns (parseHireJobsHTML in both
\* its versions, extractHireJobsData on the browser path, and the direct-fetch
\* path, which returns the parser's result as it is) has a title of at least
\* 3, a company of at least 2 and a description of at least 100 characters;
\* on a page with no description candidate of that length the call returns no
\* posting (it fails).
C14_ReturnedPostingMeetsBounds ==
  posting.state = "returned" =>
    /\ Len(posting.title) >= 3
    /\ Len(posting.company) >= 2
    /\ posting.description >= 100
    /\ ~NoDescriptionOf100(html)

\* C15: outside mock mode, what scrapeJobPosting hands to the closure is the
\* posting read from the page: never the built-in mock posting and never a
\* posting made of placeholders ('Job Position', 'Position (ID: ...)',
\* 'Company'); a failed fetch or extraction yields no posting.
C15_NoFabricatedPosting ==
  \A i \in Slots :
    (tasks[i].kind = "url" /\ tasks[i].stage = "generate" /\ ~env.MOCK_CRAWLER)
      => tasks[i].jobData.source = "page"

\* the posting is what the validated parseHireJobsHTML returned for the page
ValidatedReturned == posting.state = "returned" /\ posting.by = "parseHireJobsHTML (validated)"

\* C16: when the hiring line of the page yields a title longer than 3 and a
\* company longer than 2 characters, the title and company the validated
\* parseHireJobsHTML returns are those two after the clean-up chain, whatever
\* the <title> and Open Graph tags, the headings and the JSON-LD hold.
C16_HiringPatternWins ==
  (ValidatedReturned /\ Len(html.hiringTitle) > 3 /\ Len(html.hiringCompany) > 2) =>
    /\ posting.title = CleanTitle(html.hiringTitle)
    /\ posting.company = CleanCompany(html.hiringCompany)

\* C16 witness: a page with the hiring line 'Acme Corp is hiring for Backend
\* Engineer' and other candidates in its tags, headings and JSON-LD has been
\* parsed, and the posting has the title and company of the hiring line.
C16_Witness ==
  /\ ValidatedReturned
  /\ html.hiringTitle = "Backend Engineer" /\ html.hiringCompany = "Acme Corp"
  /\ html.titleFromMeta = "Senior Role - Careers" /\ html.sdTitle = "Platform Engineer"
  /\ html.companyFromMeta = "Globex" /\ html.sdCompany = "Umbrella"
  /\ posting.title = "Backend Engineer" /\ posting.company = "Acme Corp"

\* the posting is what parseHireJobsHTML of src/utils/parser.ts returned for a
\* page on which no strategy raised
ParserReturned ==
  posting.state = "returned" /\ posting.by = "parseHireJobsHTML" /\ html.throws \notin ParserStrategies

\* what the final clean-up of src/utils/parser.ts leaves of a title, a company
PlaceholderTitle(text) ==
  IF text = "" \/ text = "HireJobs" THEN "Job Position" ELSE text

PlaceholderCompany(text) ==
  IF text = "" THEN "Company" ELSE IF text = "HireJobs" THEN "Company on HireJobs" ELSE text

PostingBy(f) == posting.state # "none" /\ posting.by = f

\* the page as the other strategies see it when parseSections contributes
\* an empty signal
WithoutSections(h) == [h EXCEPT !.throws = "none", !.sectionsLen = 0]

\* C18: the strategies of one extraction call are isolated. A call of
\* parseHireJobsHTML (either version) on a page where parseSections raises
\* gives what it gives on the same page without sections; a call of
\* extractHireJobsData on a page where extractHiringInfo raises returns the
\* posting merged from its other strategies, which read the same hiring line.
C18_StrategiesIsolated ==
  /\ (PostingBy("parseHireJobsHTML (validated)") /\ html.throws \in ParserStrategies) =>
       posting = ParseHireJobsHTMLValidated(WithoutSections(html))
  /\ (PostingBy("parseHireJobsHTML") /\ html.throws \in ParserStrategies) =>
       posting = ParseHireJobsHTML(WithoutSections(html))
  /\ (PostingBy("extractHireJobsData") /\ html.throws = "extractHiringInfo") =>
       posting = ExtractHireJobsData(env, [html EXCEPT !.throws = "none"])

\* generateReferenceMessage has ended, having had a client to call
ReferenceEnded ==
  /\ reference.state \in {"returned", "threw"}
  /\ ~env.USE_MOCK_AI /\ env.GEMINI_API_KEY

\* C19: a call of generateReferenceMessage that has ended called the models
\* in their listed order, each one after a 'not found' of the one before; when
\* its last call succeeded it returned that model's text (in part_013 after
\* the clean-up chain); when its last call failed with another error it threw
\* that error; when its last call failed with 'not found', it was the call
\* of the third model and the call threw.
C19_FirstModelNotNotFound ==
  ReferenceEnded =>
    LET n      == Len(reference.calls)
        answer == gemini[reference.calls[n]]
    IN  /\ n \in 1..Len(ReferenceModels)
        /\ \A i \in 1..n : reference.calls[i] = ReferenceModels[i]
        /\ \A i \in 1..(n - 1) :
             ~gemini[ReferenceModels[i]].ok /\ IncludesNotFound(gemini[ReferenceModels[i]].text)
        /\ answer.ok =>
             /\ reference.state = "returned"
             /\ reference.text = ReferenceText(reference.version, answer.text)
        /\ (~answer.ok /\ ~IncludesNotFound(answer.text)) =>
             /\ reference.state = "threw"
             /\ reference.error = answer.text
        /\ (~answer.ok /\ IncludesNotFound(answer.text)) =>
             /\ n = Len(ReferenceModels)
             /\ reference.state = "threw"

\* C20: when clearReferralCache of actor u for job j is the latest thing
\* that happened, the next step, unless it is a generateReferral of u for j,
\* leaves the key of (u, j) without an entry to read: getGeneratedReferral(u, j)
\* would still answer 404, whatever a task started before the clear does.
C20_ClearedStaysNotFound ==
  [][\A u \in Actors, j \in JobIds :
       (last.op = "clear" /\ last.userId = u /\ last.jobId = j) =>
         \/ CacheGet(jobCache', CacheKey(u, "job", j), now').status = "undefined"
         \/ GenerateReferral(u, j)]_vars

\* the trailing segment of the path of a URL
TrailingSegment(url) == Pathname(url)[Len(Pathname(url))]

\* C21: a request whose URL validateJobUrlRequest accepted gets, in the
\* handler, the trailing segment of the URL's path as its jobId; and two such
\* requests of one actor have the same jobId, and the same cache key, exactly
\* when their URLs have the same path.
C21_JobIdIsTrailingSegment ==
  /\ \A i \in RequestSlots :
       requests[i].stage = "handled" =>
         requests[i].jobId = TrailingSegment(requests[i].jobUrl)
  /\ \A i, k \in RequestSlots :
       (requests[i].stage = "handled" /\ requests[k].stage = "handled") =>
         /\ requests[i].jobId = requests[k].jobId
              <=> Pathname(requests[i].jobUrl) = Pathname(requests[k].jobUrl)
         /\ requests[i].cacheKey = requests[k].cacheKey
              <=> Pathname(requests[i].jobUrl) = Pathname(requests[k].jobUrl)

\* the last instant of the model's clock
LastInstant == CHOOSE t \in TimeGrid : \A x \in TimeGrid : x <= t

\* the hung closure of slot i is the only closure of key k, whose Processing
\* entry was written early enough for the clock to pass 120 s after it
BlockedByHung(i, k) ==
  /\ tasks[i].stage = "hung" /\ tasks[i].key = k
  /\ InFlightFor(tasks, k) = {i}
  /\ HoldsProcessing(jobCache, k)
  /\ jobCache[k].v.startedAt + 120 < LastInstant

\* C22: when the only closure of a key hangs while the key holds its
\* Processing entry, and the client goes on calling generateReferral, a new
\* closure is eventually started for the key (no restart: the hung closure
\* is still there).
C22_HungTaskDoesNotBlockKey ==
  \A i \in Slots, k \in JobKeys :
    BlockedByHung(i, k) ~> (\E n \in InFlightFor(tasks, k) \ {i} : tasks[n].stage # "hung")

\* C22 witness: beside the hung closure, a closure started by a
\* generateReferral more than 120 s after the hung one's entry is in flight
\* for the key, which holds the new Processing entry.
C22_Witness ==
  \E i \in Slots, k \in JobKeys :
    /\ tasks[i].stage = "hung" /\ tasks[i].key = k
    /\ InFlightFor(tasks, k) \ {i} # {}
    /\ HoldsProcessing(jobCache, k)
    /\ jobCache[k].v.startedAt > 120
    /\ last.op = "generate" /\ last.status = 202

\* in this step the handler of caller c ended a create or an update that asked
\* for isDefault = true with a success response
DefaultRequestSucceeds(c) ==
  /\ templateCalls[c].stage # "ended" /\ templateCalls'[c].stage = "ended"
  /\ templateCalls'[c].op \in {"create", "update"}
  /\ templateCalls'[c].isDefault = "true"
  /\ templateCalls'[c].status \in {200, 201}

\* C23: after every step of every interleaving of createTemplate,
\* updateTemplate and deleteTemplate, each owner has at most one template
\* with isDefault = true; and when a create or an update with isDefault = true
\* ends with success, its template is the owner's only default.
C23_OneDefaultPerOwner ==
  [][/\ \A u \in Owners : Cardinality(DefaultsOf(templates', u)) <= 1
     /\ \A c \in TemplateCallers :
          DefaultRequestSucceeds(c) =>
            DefaultsOf(templates', templateCalls'[c].userId) = {templateCalls'[c].id}]_vars

\* C24: a message generateReferralMessage returns follows the template
\* getActiveTemplate resolves for the caller at the time of the call: on a
\* return from the cache that is the caller's active template of that moment,
\* on a return after the completion the template the call resolved.
C24_MessageFollowsActiveTemplate ==
  [][/\ \A u \in {NoUser} \cup Users, job \in JobInputs :
          (ReferralMessageCall(u, job) /\ last'.op = "message") =>
            last'.message = MessageFollowing(GetActiveTemplate(templates, u))
     /\ \A i \in Slots :
          ReferralCompletionReturns(i) =>
            last'.message = MessageFollowing(tasks[i].templateContent)]_vars

\* C25: a generateReferralMessage call that finds a text stored under its key
\* returns that text, resolves no credential and invokes no completion; a call
\* that finds none and fails (no API key, or the completion throws) ends with
\* an error and leaves messageCache as it was.
C25_HitSkipsModelFailureLeavesCache ==
  [][/\ \A u \in {NoUser} \cup Users, job \in JobInputs :
          LET k == MessageKey(u, job)
          IN  GenerateReferralMessage(u, job) =>
                IF k \in DOMAIN messageCache
                THEN /\ tasks' = tasks
                     /\ last' = Output("message", u, k[2], 0, "", messageCache[k].v, NoThrow)
                ELSE /\ messageCache' = messageCache
                     /\ last'.op = "message" => (last'.error # "" /\ last'.message = "")
     /\ \A i \in Slots :
          CompletionThrows(i) => (messageCache' = messageCache /\ last'.error # "" /\ last'.message = "")]_vars

\* ------------------------ aiService: hashString on the character codes
\* A text is the sequence of its UTF-16 code units (text.charCodeAt(i)).

\* jobDescription.slice(0, 1000): the number of characters kept
PreviewLength == 1000

\* 32-bit values are held as two 16-bit limbs
Limb == 65536

Hi(h) == h \div Limb

Lo(h) == h % Limb

\* ToInt32 of hi * 2^16 + lo: the value modulo 2^32, read as signed
ToInt32OfLimbs(hi, lo) ==
  LET low  == lo % Limb
      high == (hi + (lo \div Limb)) % Limb
  IN  IF high >= 32768 THEN (high - Limb) * Limb + low ELSE high * Limb + low

ShiftLeft5_By4(hash) == ToInt32OfLimbs(Hi(hash) * 16, Lo(hash) * 16)

\* hash << 5
ShiftLeft5(hash) == ToInt32OfLimbs(Hi(hash) * 32, Lo(hash) * 32)

\* one turn of the loop: hash = ((hash << 5) - hash) + char; hash = hash & hash
\* (the subtraction and the addition are exact, the & converts to 32 bits)
HashLoopBody(hash, char) ==
  LET shifted == ShiftLeft5(hash)
  IN  ToInt32OfLimbs(Hi(shifted) - Hi(hash), Lo(shifted) - Lo(hash) + char)

\* the turns from..to of the loop, in order, entered with hash: a range of
\* turns is run as its first half, then its second half entered with the
\* number the first half left
RECURSIVE HashLoop(_, _, _, _)
HashLoop(hash, text, from, to) ==
  IF from > to THEN hash
  ELSE IF from = to THEN HashLoopBody(hash, text[from])
  ELSE LET mid  == (from + to) \div 2
           half == HashLoop(hash, text, from, mid)
       IN  IF half \in Int THEN HashLoop(half, text, mid + 1, to) ELSE half

\* Number.prototype.toString of an integer: its decimal digits, "-" first
RECURSIVE DecimalDigits(_)
DecimalDigits(n) ==
  IF n < 10 THEN <<n>> ELSE Append(DecimalDigits(n \div 10), n % 10)

\* -2^31 is written from its digits, as its negation is no 32-bit value
NumberToString(n) ==
  IF n >= 0 THEN DecimalDigits(n)
  ELSE IF n = (0 - 32768) * Limb THEN <<"-", 2, 1, 4, 7, 4, 8, 3, 6, 4, 8>>
  ELSE <<"-">> \o DecimalDigits(0 - n)

\* hashString(text)
HashStringOfCodes(text) ==
  IF Len(text) = 0 THEN NumberToString(0) ELSE NumberToString(HashLoop(0, text, 1, Len(text)))

\* jobDescription.slice(0, 1000)
Slice(text) ==
  SubSeq(text, 1, IF Len(text) < PreviewLength THEN Len(text) ELSE PreviewLength)

\* descriptions: short ones, among them some whose hash leaves 32 bits, and
\* long ones that differ at the last character kept or only after it
LongPrefix == [i \in 1..(PreviewLength - 1) |-> 97]

CodeDescriptions ==
  { <<>>, <<97>>, <<97, 98>>,
    <<65535, 65535, 65535, 65535, 65535>>,
    <<74, 111, 98, 32, 97, 100, 33>>,
    <<122, 122, 122, 122, 122, 122, 122, 122>> }
  \cup { LongPrefix \o <<x>> \o tail :
           x \in {97, 98}, tail \in {<<>>, <<99>>, <<100, 101>>} }

KeyTitles == {"Backend Engineer", " backend engineer "}

KeyCompanies == {"Acme Corp"}

\* the calls whose keys are compared
KeyCallSlots == 1..2

\* lines 544-546 of generateReferralMessage: the preview, its hash, the key
KeyCall(userId, jobTitle, companyName, jobDescription) ==
  LET descriptionPreview == Slice(jobDescription)
      descriptionHash    == HashStringOfCodes(descriptionPreview)
  IN  [userId |-> userId, jobTitle |-> jobTitle, companyName |-> companyName,
       jobDescription |-> jobDescription,
       descriptionHash |-> descriptionHash,
       cacheKey |-> GenerateCacheKey(userId, jobTitle, companyName, descriptionHash)]

ComputeCacheKey(userId, jobTitle, companyName, jobDescription) ==
  /\ Len(keyCalls) + 1 \in KeyCallSlots
  /\ keyCalls' = Append(keyCalls, KeyCall(userId, jobTitle, companyName, jobDescription))
  /\ UNCHANGED <<controllerVars, messageCache, html, posting, gemini, reference,
                 requests, templates, templateCalls>>

NextKeys ==
  \E u \in {NoUser} \cup Users, t \in KeyTitles, c \in KeyCompanies, d \in CodeDescriptions :
    ComputeCacheKey(u, t, c, d)

\* the services start as in InitScopes: nothing called yet
SpecKeys == InitScopes /\ [][NextKeys]_vars

\* the hash the claim describes: hash := 31 * hash + charCode, wrapped to a
\* signed 32-bit integer at every step, from 0
Rolling31Step(hash, charCode) ==
  ToInt32OfLimbs(31 * Hi(hash), 31 * Lo(hash) + charCode)

RECURSIVE Rolling31(_, _, _, _)
Rolling31(hash, text, from, to) ==
  IF from > to THEN hash
  ELSE IF from = to THEN Rolling31Step(hash, text[from])
  ELSE LET mid  == (from + to) \div 2
           half == Rolling31(hash, text, from, mid)
       IN  IF half \in Int THEN Rolling31(half, text, mid + 1, to) ELSE half

\* two texts have the same first 1000 characters
SamePreview(a, b) ==
  /\ (Len(a) < 1000 \/ Len(b) < 1000) => Len(a) = Len(b)
  /\ \A i \in 1..1000 : (i <= Len(a) /\ i <= Len(b)) => a[i] = b[i]

\* C26: hashString computes hash := 31 * hash + charCode wrapped to a signed
\* 32-bit integer at every step from 0, the key carries that hash of the
\* first 1000 characters of the description, and two calls with the same first
\* 1000 characters, title, company and user get the same key.
C26_KeyThroughRollingHash ==
  /\ \A n \in 1..Len(keyCalls) :
       LET c    == keyCalls[n]
           kept == Slice(c.jobDescription)
       IN  /\ c.descriptionHash = NumberToString(Rolling31(0, kept, 1, Len(kept)))
           /\ c.cacheKey[4] = c.descriptionHash
  /\ \A m, n \in 1..Len(keyCalls) :
       LET c == keyCalls[m]
           d == keyCalls[n]
       IN  ( /\ SamePreview(c.jobDescription, d.jobDescription)
             /\ c.jobTitle = d.jobTitle
             /\ c.companyName = d.companyName
             /\ c.userId = d.userId ) => c.cacheKey = d.cacheKey

\* two calls whose descriptions are longer than 1000 characters and differ
\* only after them share a key, and the hash in it, of 1000 characters, has
\* the ten digits of a 32-bit number at most
C26_Witness ==
  \E m, n \in 1..Len(keyCalls) :
    LET c == keyCalls[m]
        d == keyCalls[n]
    IN  /\ c.jobDescription # d.jobDescription
        /\ Len(c.jobDescription) > 1000
        /\ SamePreview(c.jobDescription, d.jobDescription)
        /\ c.jobTitle = d.jobTitle /\ c.userId = d.userId
        /\ c.cacheKey = d.cacheKey
        /\ Len(c.descriptionHash) <= 10

\* ------------------------------------- closures whose awaits all settle
\* The controller where the event loop resumes every closure: the page
\* fetch and the completion call of each closure return or fail.  Clients
\* submit and poll while closures run, and the clock stops past the staleness
\* threshold; clearReferralCache, which reads and writes no closure, is a
\* part of Spec.
NextSettling ==
  \/ \E u \in Actors, j \in JobIds : GenerateReferral(u, j) /\ UNCHANGED serviceVars
  \/ \E u \in Actors, j \in JobIds : GetGeneratedReferral(u, j) /\ UNCHANGED serviceVars
  \/ \E i \in Slots : TaskStep(i) /\ UNCHANGED serviceVars
  \/ Tick /\ now' <= StaleAfter + MaxUnit /\ UNCHANGED serviceVars

SpecSettling ==
  /\ Init /\ [][NextSettling]_vars
  /\ \A i \in Slots : WF_vars(TaskStep(i) /\ UNCHANGED serviceVars)

\* closure i is running
Running(i) == tasks[i].kind = "url"

\* the step writes one terminal entry under key k and nothing else
WritesOneTerminal(k) ==
  /\ k \in DOMAIN jobCache'
  /\ jobCache'[k].v.status = "completed"
  /\ jobCache'[k].v.timestamp = now
  /\ \A x \in DOMAIN jobCache \ {k} : x \in DOMAIN jobCache' /\ jobCache'[x] = jobCache[x]
  /\ DOMAIN jobCache' \subseteq DOMAIN jobCache \cup {k}

\* C27: every closure started by generateReferral whose awaits settle writes
\* exactly one terminal entry (completed, success or failure) under its key
\* and then stops: a step of a running closure that does not end it writes
\* nothing to jobCache, the step that ends it writes one terminal entry under
\* the closure's key and nothing else, and every running closure ends.
C27_OneTerminalWriteThenStops ==
  /\ [][\A i \in Slots :
          (Running(i) /\ tasks'[i] # tasks[i]) =>
            IF tasks'[i] = Idle
            THEN WritesOneTerminal(tasks[i].key)
            ELSE /\ jobCache' = jobCache
                 /\ tasks'[i].kind = "url" /\ tasks'[i].key = tasks[i].key]_vars
  /\ \A i \in Slots : Running(i) ~> (tasks[i] = Idle)

\* a closure has just ended with a failure entry while another one, started
\* later for the same key, is still running
C27_Witness ==
  \E i \in Slots, k \in DOMAIN jobCache :
    /\ Running(i) /\ tasks[i].stage = "generate" /\ tasks[i].key = k
    /\ last.op = "taskFailed"
    /\ jobCache[k].v.status = "completed" /\ ~jobCache[k].v.success

\* -------------------------------------- getGeneratedReferral and jobCache

\* C28: getGeneratedReferral starts no closure and changes jobCache in one
\* case only: when the polled key holds a Processing entry older than 120 s
\* it deletes that entry, and every other entry stays; on a key that is
\* absent, holds a Processing entry of 120 s or less, or holds a terminal
\* entry, jobCache is left as it was.
C28_PollOnlyEvictsStale ==
  [][\A u \in ScopeActors, j \in JobIds :
       GetGeneratedReferral(u, j) =>
         LET key == CacheKey(u, "job", j)
         IN  /\ tasks' = tasks
             /\ IF /\ key \in DOMAIN jobCache
                   /\ jobCache[key].v.status = "processing"
                   /\ now - jobCache[key].v.startedAt > 120
                THEN /\ DOMAIN jobCache' = DOMAIN jobCache \ {key}
                     /\ \A x \in DOMAIN jobCache' : jobCache'[x] = jobCache[x]
                ELSE jobCache' = jobCache]_vars

\* a poll has just evicted a stale Processing entry and the entry of another
\* scope is still there
C28_Witness ==
  /\ last.op = "result" /\ last.status = 500
  /\ CacheKey(last.userId, "job", last.jobId) \notin DOMAIN jobCache
  /\ jobCache # <<>>

\* ------------------------------------ clearReferralCache between scopes

\* generateReferral, its closure and clearReferralCache, called from every
\* scope; the requests of a run keep to two scopes at a time, and the clock
\* stops before any entry is stale or expired (clearReferralCache reads no
\* age).
NextClearing ==
  \/ \E u \in ScopeActors, j \in JobIds :
       /\ Cardinality(ActiveScopes(jobCache, tasks) \cup {u}) <= 2
       /\ GenerateReferral(u, j)
       /\ UNCHANGED serviceVars
  \/ \E u \in ScopeActors, b \in ClearBodies : ClearReferralCache(u, b) /\ UNCHANGED serviceVars
  \/ \E i \in Slots : TaskStep(i) /\ UNCHANGED serviceVars
  \/ Tick /\ now' <= MaxUnit /\ UNCHANGED serviceVars

SpecClearing == InitScopes /\ [][NextClearing]_vars

\* the entries of jobCache keyed under a user other than u
EntriesOfOthers(c, u) ==
  { k \in DOMAIN c : k[1] # NoUser /\ k[1] # u }

\* C29: after a clearReferralCache issued by a user, every jobCache entry
\* keyed under another user id is there as it was.
C29_ClearSparesOtherUsers ==
  [][\A u \in ScopeActors \ {NoUser}, b \in ClearBodies :
       ClearReferralCache(u, b) =>
         \A k \in EntriesOfOthers(jobCache, u) :
           k \in DOMAIN jobCache' /\ jobCache'[k] = jobCache[k]]_vars

\* ------------------------- scrapeJobPosting on the values a page can carry
\* JSON.parse of a JSON-LD script yields values of any JSON type; title and
\* hiringOrganization.name are taken as they are.

JsonString(text) == [type |-> "string", text |-> text]

\* a value in a condition: '' is falsy, 42 and a non-empty array are truthy
Truthy(v) == ~(v.type = "string" /\ v.text = "")

\* the value has the methods of a string (replace, trim)
IsString(v) == v.type = "string"

\* pages whose JSON-LD carries a title and an organisation name of any type:
\* a string, the number 42, the array ["Platform Engineer"]
JsonPages ==
  [ state            : {"page"},
    hiringTitle      : {"", "Backend Engineer"},
    hiringCompany    : {"", "Acme Corp"},
    titleFromMeta    : {"", "Senior Role - Careers"},
    titleFromHeader  : {"", "RE: Data Engineer"},
    sdTitle          : {JsonString(""), JsonString("Platform Engineer"),
                        [type |-> "number", text |-> "42"],
                        [type |-> "array", text |-> "Platform Engineer"]},
    companyFromMeta  : {"", "Globex"},
    companyFromDOM   : {"", "at Initech"},
    sdCompany        : {JsonString(""), JsonString("Umbrella"), [type |-> "number", text |-> "42"]},
    sectionsLen      : {0, 300},
    descriptionLen   : {0},
    sdDescriptionLen : {0},
    additionalLen    : {0},
    throws           : {"none", "parseSections", "page.content"} ]

\* a JobData: title and company as values, description as its length
JobDataOf(by, title, company, description) ==
  [state |-> "returned", by |-> by, title |-> title, company |-> company,
   description |-> description, error |-> ""]

MockJobDataOf(by) ==
  JobDataOf(by, JsonString("Software Engineer"), JsonString("Tech Innovations"),
            MockDescriptionLen)

\* parseHireJobsHTML of src/utils/parser.ts: result.title and result.company
\* after the hiring pattern, the title and company data and the structured
\* data were applied
ResultTitle(h) ==
  LET t0 == IF h.hiringTitle # "" THEN h.hiringTitle ELSE "Job Position"
      t1 == IF h.titleFromMeta # "" /\ (t0 = "" \/ t0 = "Job Position") THEN h.titleFromMeta
            ELSE IF h.titleFromHeader # "" /\ (t0 = "" \/ t0 = "Job Position")
            THEN h.titleFromHeader
            ELSE t0
  IN  IF Truthy(h.sdTitle) /\ (t1 = "" \/ t1 = "Job Position") THEN h.sdTitle ELSE JsonString(t1)

ResultCompany(h) ==
  LET c0 == IF h.hiringCompany # "" THEN h.hiringCompany ELSE "Company"
      c1 == IF h.companyFromMeta # "" /\ (c0 = "" \/ c0 = "Company") THEN h.companyFromMeta
            ELSE IF h.companyFromDOM # "" /\ (c0 = "" \/ c0 = "Company")
            THEN h.companyFromDOM
            ELSE c0
  IN  IF Truthy(h.sdCompany) /\ (c1 = "" \/ c1 = "Company") THEN h.sdCompany ELSE JsonString(c1)

\* the final cleanup of result.title, on a string
CleanedResultTitle(text) ==
  LET t == WithoutHireJobs(text)
  IN  IF t = "" \/ t = "job details" THEN "Job Position" ELSE t

\* the final cleanup of result.company, on a string
CleanedResultCompany(text) ==
  LET c == WithoutHireJobs(text)
  IN  IF c = "" \/ c = "Company on" THEN "Company on HireJobs" ELSE c

\* parseHireJobsHTML: a value without replace() raises a TypeError in the
\* final cleanup, and the catch block returns result as it stands
ParseHireJobsHTMLOnJson(h) ==
  LET by          == "parseHireJobsHTML"
      title       == ResultTitle(h)
      company     == ResultCompany(h)
      description == ParserDescription(h)
  IN  IF h.throws \in ParserStrategies
      THEN JobDataOf(by, JsonString("Job Position"), JsonString("Company"), 0)
      ELSE IF Truthy(title) /\ ~IsString(title)
      THEN JobDataOf(by, title, company, description)
      ELSE IF Truthy(company) /\ ~IsString(company)
      THEN JobDataOf(by, JsonString(CleanedResultTitle(title.text)), company, description)
      ELSE JobDataOf(by, JsonString(CleanedResultTitle(title.text)),
                     JsonString(CleanedResultCompany(company.text)), description)

\* the object extractHireJobsData returns from its catch block
ExtractionFallback ==
  JobDataOf("extractHireJobsData", JsonString("Job Position (ID: " \o JobIdOfPage \o ")"),
            JsonString("Company (ID: " \o JobIdOfPage \o ")"), 90)

\* extractHireJobsData: a value without replace() raises a TypeError in the
\* clean-up of jobTitle or companyName, inside the function's try
ExtractHireJobsDataOnJson(e, h) ==
  IF h.throws = "page.content" THEN ExtractionFallback
  ELSE
    LET hiringInfo == ExtractHiringInfo(h)
        parsed     == ParseHireJobsHTMLOnJson(h)
        t0 == IF hiringInfo.title = "" \/ hiringInfo.title = "Job Position"
              THEN parsed.title ELSE JsonString(hiringInfo.title)
        c0 == IF hiringInfo.company \in {"", "Company on HireJobs", "Company on"}
              THEN parsed.company ELSE JsonString(hiringInfo.company)
        d0 == IF h.sectionsLen < 100 THEN parsed.description ELSE h.sectionsLen
    IN  IF (Truthy(t0) /\ ~IsString(t0)) \/ (Truthy(c0) /\ ~IsString(c0))
        THEN ExtractionFallback
        ELSE
          LET t1 == CleanJobTitle(t0.text)
              c1 == CleanCompanyName(c0.text)
              jobTitle    == IF t1 = "" \/ Len(t1) < 3 \/ t1 = "Job Position"
                             THEN "Position (ID: " \o JobIdOfPage \o ")" ELSE t1
              companyName == IF c1 = "" \/ Len(c1) < 2 \/ c1 = "Company on"
                             THEN "Company (ID: " \o JobIdOfPage \o ")" ELSE c1
              jobDescription ==
                IF d0 < 100
                THEN (IF e.NODE_ENV = "development" \/ e.MOCK_CRAWLER
                      THEN MockDescriptionLen
                      ELSE GenericDescriptionLen(jobTitle, companyName))
                ELSE d0
          IN  JobDataOf("extractHireJobsData", JsonString(jobTitle),
                        JsonString(companyName), jobDescription)

\* what the outside world does to the fetch of the page
PageFetchEvents(e) ==
  IF e.MOCK_CRAWLER THEN {"none"}
  ELSE IF e.USE_DIRECT_FETCH THEN {"page", "httpError", "fetchThrows"}
  ELSE {"page", "requestFailed", "crawlerThrows"}

\* scrapeJobPosting; directFetchJobData returns the parser's result for a
\* page and the mock posting for a failed fetch
ScrapeJobPostingOnJson(e, event, h) ==
  IF e.MOCK_CRAWLER THEN MockJobDataOf("scrapeJobPosting")
  ELSE IF e.USE_DIRECT_FETCH
  THEN (IF event = "page" THEN ParseHireJobsHTMLOnJson(h)
        ELSE MockJobDataOf("directFetchJobData"))
  ELSE CASE event = "page"          -> ExtractHireJobsDataOnJson(e, h)
         [] event = "requestFailed" -> MockJobDataOf("scrapeJobPosting")
         [] OTHER                   ->
              IF e.NODE_ENV = "development"
              THEN MockJobDataOf("scrapeJobPosting")
              ELSE Threw("scrapeJobPosting", "crawler navigation timed out")

\* const jobData = await scrapeJobPosting(jobUrl)
CallScrapeJobPosting ==
  /\ posting = NoCall
  /\ \E event \in PageFetchEvents(env) : posting' = ScrapeJobPostingOnJson(env, event, html)
  /\ UNCHANGED <<controllerVars, messageCache, html, gemini, reference, requests,
                 templates, templateCalls, keyCalls>>

\* jobData.title.trim() and jobData.company.trim() in the closure
ClosureTrimsJobData ==
  /\ posting.state = "returned"
  /\ posting' = [posting EXCEPT !.state =
                   IF ~IsString(posting.title) THEN "TypeError: jobData.title.trim"
                   ELSE IF ~IsString(posting.company) THEN "TypeError: jobData.company.trim"
                   ELSE "trimmed"]
  /\ UNCHANGED <<controllerVars, messageCache, html, gemini, reference, requests,
                 templates, templateCalls, keyCalls>>

\* the closure's catch after scrapeJobPosting threw
ClosureCatchesScrape ==
  /\ posting.state = "threw"
  /\ posting' = [posting EXCEPT !.state = "caught"]
  /\ UNCHANGED <<controllerVars, messageCache, html, gemini, reference, requests,
                 templates, templateCalls, keyCalls>>

InitScrape ==
  /\ env \in Envs
  /\ now = 0
  /\ jobCache = <<>>
  /\ tasks = [i \in Slots |-> Idle]
  /\ last = Response("none", NoUser, "", 0, "")
  /\ messageCache = <<>>
  /\ html \in JsonPages
  /\ posting = NoCall
  /\ gemini = NoCall
  /\ reference = NoCall
  /\ requests = <<>>
  /\ templates = <<>>
  /\ templateCalls = <<>>
  /\ keyCalls = <<>>

NextScrape ==
  \/ CallScrapeJobPosting
  \/ ClosureTrimsJobData
  \/ ClosureCatchesScrape

SpecScrape == InitScrape /\ [][NextScrape]_vars

\* C30: scrapeJobPosting never resolves to null: whatever it returns is a
\* JobData whose title and company are strings and whose description is a
\* text, so the dereference of the result in the closure of generateReferral
\* never fails.
C30_ScrapedJobDataIsStrings ==
  /\ posting.state = "returned" =>
       /\ IsString(posting.title) /\ IsString(posting.company)
       /\ posting.description \in Nat
  /\ posting.state \in {"none", "returned", "threw", "caught", "trimmed"}

====
